---------------------------- MODULE Spec2Model ----------------------------
(***************************************************************************)
(* A model of the Go package github.com/KEINOS/go-argonize (argonize.go):  *)
(* Argon2id password hashing, the PHC string codec of a Hashed object and  *)
(* password verification.                                                  *)
(*                                                                         *)
(* Representation.                                                         *)
(*  - A Go string is a sequence of one-character strings.                  *)
(*  - A Go []byte is a record [isNil, b]: a nil slice and a zero-length    *)
(*    slice are different values with the same (empty) contents b.         *)
(*  - A Go error is the sequence of its messages, outermost wrap first;    *)
(*    the nil error is the empty sequence.  err.Error() contains a message *)
(*    iff the message is an element of the sequence.                       *)
(*  - A *Params is a reference into the heap `params`; a *Hashed is a      *)
(*    record whose field isNil tells the nil pointer.                      *)
(***************************************************************************)
EXTENDS Integers, Sequences, FiniteSets, TLC

(***************************************************************************)
(* Characters and strings                                                  *)
(***************************************************************************)

\* decimalDigits of package fmt, in order of value.
Digits == <<"0", "1", "2", "3", "4", "5", "6", "7", "8", "9">>

\* The alphabet of base64.StdEncoding, in order of value.
B64Alphabet ==
    <<"A", "B", "C", "D", "E", "F", "G", "H", "I", "J", "K", "L", "M",
      "N", "O", "P", "Q", "R", "S", "T", "U", "V", "W", "X", "Y", "Z",
      "a", "b", "c", "d", "e", "f", "g", "h", "i", "j", "k", "l", "m",
      "n", "o", "p", "q", "r", "s", "t", "u", "v", "w", "x", "y", "z",
      "0", "1", "2", "3", "4", "5", "6", "7", "8", "9", "+", "/">>

Range(s) == {s[i] : i \in 1..Len(s)}

IsDigit(c) == c \in Range(Digits)

DigitVal(c) == (CHOOSE i \in 1..Len(Digits) : Digits[i] = c) - 1

IsB64Char(c) == c \in Range(B64Alphabet)

B64Val(c) == (CHOOSE i \in 1..Len(B64Alphabet) : B64Alphabet[i] = c) - 1

Tail2(s, n) == SubSeq(s, n + 1, Len(s))

\* s begins with the string lit.
HasPrefix(s, lit) == Len(s) >= Len(lit) /\ SubSeq(s, 1, Len(lit)) = lit

(***************************************************************************)
(* Byte slices and errors                                                  *)
(***************************************************************************)

NilBytes == [isNil |-> TRUE, b |-> <<>>]

MkBytes(s) == [isNil |-> FALSE, b |-> s]

NoError == <<>>

\* errors.New(msg)
NewError(msg) == <<msg>>

\* errors.Wrap(err, msg): "msg: err"
Wrap(err, msg) == <<msg>> \o err

\* strings.Contains(err.Error(), msg) for the messages the package uses.
ErrContains(err, msg) == msg \in Range(err)

(***************************************************************************)
(* fmt.Sprintf("%d", n) for an unsigned n                                  *)
(***************************************************************************)

RECURSIVE FormatUint(_)
FormatUint(n) ==
    IF n < 10 THEN <<Digits[n + 1]>>
    ELSE FormatUint(n \div 10) \o <<Digits[(n % 10) + 1]>>

(***************************************************************************)
(* base64.RawStdEncoding                                                   *)
(***************************************************************************)

B64Char(v) == B64Alphabet[v + 1]

\* base64.StdEncoding.EncodeToString: the last quantum is filled up with
\* "=".
RECURSIVE EncodeToStringPadded(_)
EncodeToStringPadded(src) ==
    IF Len(src) = 0 THEN <<>>
    ELSE IF Len(src) = 1 THEN
        LET val == src[1] * 65536
        IN  <<B64Char(val \div 262144), B64Char((val \div 4096) % 64),
              "=", "=">>
    ELSE IF Len(src) = 2 THEN
        LET val == src[1] * 65536 + src[2] * 256
        IN  <<B64Char(val \div 262144), B64Char((val \div 4096) % 64),
              B64Char((val \div 64) % 64), "=">>
    ELSE
        LET val == src[1] * 65536 + src[2] * 256 + src[3]
        IN  <<B64Char(val \div 262144), B64Char((val \div 4096) % 64),
              B64Char((val \div 64) % 64), B64Char(val % 64)>>
            \o EncodeToStringPadded(Tail2(src, 3))

\* base64.RawStdEncoding.EncodeToString: three bytes make four characters, a
\* remainder of one byte makes two and of two bytes three; no padding.
RECURSIVE EncodeToString(_)
EncodeToString(src) ==
    IF Len(src) = 0 THEN <<>>
    ELSE IF Len(src) = 1 THEN
        LET val == src[1] * 65536
        IN  <<B64Char(val \div 262144), B64Char((val \div 4096) % 64)>>
    ELSE IF Len(src) = 2 THEN
        LET val == src[1] * 65536 + src[2] * 256
        IN  <<B64Char(val \div 262144), B64Char((val \div 4096) % 64),
              B64Char((val \div 64) % 64)>>
    ELSE
        LET val == src[1] * 65536 + src[2] * 256 + src[3]
        IN  <<B64Char(val \div 262144), B64Char((val \div 4096) % 64),
              B64Char((val \div 64) % 64), B64Char(val % 64)>>
            \o EncodeToString(Tail2(src, 3))

\* The decoder skips '\r' and '\n' wherever they stand.
RECURSIVE DropNewlines(_)
DropNewlines(s) ==
    IF s = <<>> THEN <<>>
    ELSE IF Head(s) \in {"\r", "\n"} THEN DropNewlines(Tail(s))
    ELSE <<Head(s)>> \o DropNewlines(Tail(s))

\* One quantum of up to four characters.  RawStdEncoding has no padding
\* character, so '=' is a character outside the alphabet like any other;
\* Strict() demands that the bits a short last quantum leaves over are zero.
RECURSIVE DecodeQuanta(_)
DecodeQuanta(s) ==
    IF Len(s) = 0 THEN [ok |-> TRUE, b |-> <<>>]
    ELSE IF \E i \in 1..(IF Len(s) < 4 THEN Len(s) ELSE 4) : ~IsB64Char(s[i])
        THEN [ok |-> FALSE, b |-> <<>>]
    ELSE IF Len(s) = 1 THEN [ok |-> FALSE, b |-> <<>>]
    ELSE IF Len(s) = 2 THEN
        LET val == B64Val(s[1]) * 262144 + B64Val(s[2]) * 4096
        IN  IF (val \div 256) % 256 # 0 \/ val % 256 # 0
            THEN [ok |-> FALSE, b |-> <<>>]
            ELSE [ok |-> TRUE, b |-> <<val \div 65536>>]
    ELSE IF Len(s) = 3 THEN
        LET val == B64Val(s[1]) * 262144 + B64Val(s[2]) * 4096
                   + B64Val(s[3]) * 64
        IN  IF val % 256 # 0
            THEN [ok |-> FALSE, b |-> <<>>]
            ELSE [ok |-> TRUE, b |-> <<val \div 65536, (val \div 256) % 256>>]
    ELSE
        LET val  == B64Val(s[1]) * 262144 + B64Val(s[2]) * 4096
                    + B64Val(s[3]) * 64 + B64Val(s[4])
            rest == DecodeQuanta(Tail2(s, 4))
        IN  IF rest.ok
            THEN [ok |-> TRUE,
                  b  |-> <<val \div 65536, (val \div 256) % 256, val % 256>>
                         \o rest.b]
            ELSE [ok |-> FALSE, b |-> <<>>]

\* base64.RawStdEncoding.Strict().DecodeString
DecodeString(s) == DecodeQuanta(DropNewlines(s))

(***************************************************************************)
(* strings.Split(s, "$")                                                   *)
(***************************************************************************)

\* The index of the first "$" of s from position i on; Len(s) + 1 if none.
RECURSIVE IndexSep(_, _)
IndexSep(s, i) ==
    IF i > Len(s) \/ s[i] = "$" THEN i ELSE IndexSep(s, i + 1)

RECURSIVE Split(_)
Split(s) ==
    LET k == IndexSep(s, 1)
    IN  IF k > Len(s) THEN <<s>>
        ELSE <<SubSeq(s, 1, k - 1)>> \o Split(Tail2(s, k))

(***************************************************************************)
(* fmt.Sscanf for the verbs and operand types the package uses             *)
(***************************************************************************)

\* ss.SkipSpace with nlIsSpace = false: blanks (a carriage return is one)
\* are skipped, a newline is an error ("unexpected newline").
RECURSIVE SkipSpace(_)
SkipSpace(s) ==
    IF s = <<>> THEN [ok |-> TRUE, rest |-> s]
    ELSE IF Head(s) = "\n" THEN [ok |-> FALSE, rest |-> s]
    ELSE IF Head(s) \in {" ", "\t", "\r"} THEN SkipSpace(Tail(s))
    ELSE [ok |-> TRUE, rest |-> s]

\* ss.advance over a literal stretch of the format: every character must be
\* the next character of the input.
Advance(s, lit) ==
    IF HasPrefix(s, lit) THEN [ok |-> TRUE, rest |-> Tail2(s, Len(lit))]
    ELSE [ok |-> FALSE, rest |-> s]

\* The length of the longest run of decimal digits s begins with.
RECURSIVE DigitRun(_)
DigitRun(s) ==
    IF s # <<>> /\ IsDigit(Head(s)) THEN 1 + DigitRun(Tail(s)) ELSE 0

RECURSIVE StripZeros(_)
StripZeros(tok) ==
    IF Len(tok) > 1 /\ Head(tok) = "0" THEN StripZeros(Tail(tok)) ELSE tok

RECURSIVE DigitsValue(_)
DigitsValue(tok) ==
    IF tok = <<>> THEN 0
    ELSE DigitsValue(SubSeq(tok, 1, Len(tok) - 1)) * 10
         + DigitVal(tok[Len(tok)])

\* a <= b for two digit strings without leading zeros.
RECURSIVE DigitsLE(_, _)
DigitsLE(a, b) ==
    IF Len(a) # Len(b) THEN Len(a) < Len(b)
    ELSE IF a = <<>> THEN TRUE
    ELSE IF Head(a) # Head(b) THEN DigitVal(Head(a)) < DigitVal(Head(b))
    ELSE DigitsLE(Tail(a), Tail(b))

\* The largest values of the operand types, as strconv and the scanner's
\* overflow test see them: int (64 bits), uint32 and uint8.
MaxOfType(type) ==
    CASE type = "int"    -> <<"9", "2", "2", "3", "3", "7", "2", "0", "3", "6",
                              "8", "5", "4", "7", "7", "5", "8", "0", "7">>
      [] type = "uint32" -> <<"4", "2", "9", "4", "9", "6", "7", "2", "9", "5">>
      [] type = "uint8"  -> <<"2", "5", "5">>

\* The value of a token that fits the type.  The model holds numbers up to
\* 2^31 - 1; a larger token of an int is any number that is not a small one.
TokenValue(tok) ==
    IF DigitsLE(tok, <<"2", "1", "4", "7", "4", "8", "3", "6", "4", "7">>)
    THEN DigitsValue(tok) ELSE 2147483647

\* The verb %d for an operand of the given type: doScanf skips blanks, then
\* scanInt / scanUint skip blanks again, refuse the end of the input, accept
\* one sign (signed operands only), demand a digit and take the longest run
\* of digits; the token must fit the operand.  What follows the digits stays
\* unread.
ScanD(s, type) ==
    LET sp     == SkipSpace(s)
        in1    == sp.rest
        signed == type = "int" /\ in1 # <<>> /\ Head(in1) \in {"+", "-"}
        in2    == IF signed THEN Tail(in1) ELSE in1
        n      == DigitRun(in2)
        tok    == StripZeros(SubSeq(in2, 1, n))
        mag    == TokenValue(tok)
    IN  IF ~sp.ok \/ in1 = <<>> \/ n = 0 \/ ~DigitsLE(tok, MaxOfType(type))
        THEN [ok |-> FALSE, val |-> 0, rest |-> s]
        ELSE [ok   |-> TRUE,
              val  |-> IF signed /\ Head(in1) = "-" THEN 0 - mag ELSE mag,
              rest |-> Tail2(in2, n)]

\* A version scan whose error is dropped: version keeps its zero value.
SscanfVersionErrorDropped(s) ==
    LET a == Advance(s, <<"v", "=">>)
        v == ScanD(a.rest, "int")
    IN  IF a.ok /\ v.ok THEN [ok |-> TRUE, version |-> v.val]
        ELSE [ok |-> TRUE, version |-> 0]

\* fmt.Sscanf(s, "v=%d", &version) with version an int
SscanfVersion(s) ==
    LET a == Advance(s, <<"v", "=">>)
        v == ScanD(a.rest, "int")
    IN  IF a.ok /\ v.ok THEN [ok |-> TRUE, version |-> v.val]
        ELSE [ok |-> FALSE, version |-> 0]

\* fmt.Sscanf(s, "m=%d,t=%d,p=%d", &MemoryCost, &Iterations, &Parallelism)
\* with operands uint32, uint32 and uint8
SscanfParams(s) ==
    LET a1 == Advance(s, <<"m", "=">>)
        m  == ScanD(a1.rest, "uint32")
        a2 == Advance(m.rest, <<",", "t", "=">>)
        t  == ScanD(a2.rest, "uint32")
        a3 == Advance(t.rest, <<",", "p", "=">>)
        p  == ScanD(a3.rest, "uint8")
    IN  IF a1.ok /\ m.ok /\ a2.ok /\ t.ok /\ a3.ok /\ p.ok
        THEN [ok |-> TRUE, m |-> m.val, t |-> t.val, p |-> p.val]
        ELSE [ok |-> FALSE, m |-> 0, t |-> 0, p |-> 0]

(***************************************************************************)
(* Constants of the package                                                *)
(***************************************************************************)

\* argon2.Version (0x13), the only version DecodeHashStr accepts and the one
\* String prints.
Version == 19

maxInt32 == 2147483647

lenDecChunks == 6

\* The least length of a hash: declared beside minLenSalt, used nowhere.
minLenHash == 4

minLenSalt == 8

IterationsDefault == 3

KeyLengthDefault == 32

MemoryCostDefault == 65536

ParallelismDefault == 4

SaltLengthDefault == 16

(***************************************************************************)
(* Type Params                                                             *)
(***************************************************************************)

\* The zero value of Params, what new(Params) holds.
ZeroParams ==
    [Iterations |-> 0, KeyLength |-> 0, MemoryCost |-> 0, SaltLength |-> 0,
     Parallelism |-> 0]

\* A SetDefault that fills in only the fields that are zero.
SetDefaultFillsZeros(p) ==
    [Iterations  |-> IF p.Iterations = 0 THEN IterationsDefault
                     ELSE p.Iterations,
     KeyLength   |-> IF p.KeyLength = 0 THEN KeyLengthDefault
                     ELSE p.KeyLength,
     MemoryCost  |-> IF p.MemoryCost = 0 THEN MemoryCostDefault
                     ELSE p.MemoryCost,
     SaltLength  |-> IF p.SaltLength = 0 THEN SaltLengthDefault
                     ELSE p.SaltLength,
     Parallelism |-> IF p.Parallelism = 0 THEN ParallelismDefault
                     ELSE p.Parallelism]

\* Params.SetDefault: every field is overwritten.
SetDefault(p) ==
    [p EXCEPT !.Iterations  = IterationsDefault,
              !.KeyLength   = KeyLengthDefault,
              !.MemoryCost  = MemoryCostDefault,
              !.SaltLength  = SaltLengthDefault,
              !.Parallelism = ParallelismDefault]

\* NewParams: the contents of the object it allocates.
NewParams == SetDefault(ZeroParams)

(***************************************************************************)
(* The collaborators: argon2.IDKey, subtle.ConstantTimeCompare, RandRead   *)
(***************************************************************************)

RECURSIVE Absorb(_, _)
Absorb(seed, bytes) ==
    IF bytes = <<>> THEN seed
    ELSE Absorb((seed * 31 + Head(bytes) + 1) % 65521, Tail(bytes))

\* argon2.IDKey(password, salt, time, memory, threads, keyLen): a stand-in
\* for the external key derivation.  Like the original it is a function of
\* the contents of password and salt (a nil slice and an empty one are the
\* same input) and of the four numbers, and it returns keyLen bytes; unlike
\* the original it is cheap.  The original panics for time < 1 or
\* threads < 1; the callers of the model stay inside its domain.
IDKey(password, salt, time, memory, threads, keyLen) ==
    LET seed0 == (time * 7 + memory * 13 + threads * 29 + keyLen * 37
                  + Len(password) * 101) % 65521
        seed  == Absorb(Absorb(seed0, password) + 257, salt)
    IN  [i \in 1..keyLen |-> (seed * i + (seed \div 256) + i * i) % 256]

\* subtle.ConstantTimeCompare(x, y): 0 at once when the lengths differ,
\* otherwise 1 iff the OR of all x[i] XOR y[i] is zero.
ConstantTimeCompare(x, y) ==
    IF Len(x) # Len(y) THEN 0
    ELSE IF \A i \in 1..Len(x) : x[i] = y[i] THEN 1 ELSE 0

\* What RandRead can be bound to: crypto/rand.Read, the failing reader of
\* TestNewSalt, and the static reader of Example_static_output.
RandReaders == {"crypto", "failing", "static"}

\* The number of different byte streams crypto/rand.Read delivers in the
\* model.
NumStreams == 2

\* Byte i of stream k.  Two streams differ in every byte.
StreamByte(k, i) == (k * 83 + i * 7) % 256

\* func(b []byte) (int, error) { return copy(b, []byte("0123456789abcdef")), nil }
StaticBytes ==
    <<48, 49, 50, 51, 52, 53, 54, 55, 56, 57, 97, 98, 99, 100, 101, 102>>

\* RandRead(b) for a b of n zero bytes: its error and the contents of b
\* after the call.  src tells the function RandRead is bound to and, for
\* crypto/rand.Read, the stream it delivers this time.
ReadRand(src, n) ==
    CASE src.reader = "crypto" ->
            [err |-> NoError, b |-> [i \in 1..n |-> StreamByte(src.stream, i)]]
      [] src.reader = "failing" ->
            [err |-> NewError("forced error"), b |-> [i \in 1..n |-> 0]]
      [] src.reader = "static" ->
            [err |-> NoError,
             b   |-> [i \in 1..n |-> IF i <= Len(StaticBytes)
                                     THEN StaticBytes[i] ELSE 0]]

(***************************************************************************)
(* Functions of the package                                                *)
(***************************************************************************)

\* RandomBytes(lenOut)
RandomBytes(lenOut, src) ==
    LET r == ReadRand(src, lenOut)
    IN  IF r.err # NoError
        THEN [bytes |-> NilBytes,
              err   |-> Wrap(r.err, "failed to read random bytes")]
        ELSE [bytes |-> MkBytes(r.b), err |-> NoError]

\* A NewSalt that reports its own message without the cause.
NewSaltHidesCause(lenOut, src) ==
    LET r == RandomBytes(lenOut, src)
    IN  IF r.err # NoError
        THEN [salt |-> NilBytes, err |-> NewError("failed to generate salt")]
        ELSE [salt |-> r.bytes, err |-> NoError]

\* NewSalt(lenOut)
NewSalt(lenOut, src) ==
    LET r == RandomBytes(lenOut, src)
    IN  IF r.err # NoError
        THEN [salt |-> NilBytes, err |-> Wrap(r.err, "failed to generate salt")]
        ELSE [salt |-> r.bytes, err |-> NoError]

\* A HashCustom that hands parameters.SaltLength to argon2.IDKey as the
\* length of the key.
HashCustomKeyOfSaltLength(password, salt, parameters, heap, src) ==
    LET p     == heap[parameters]
        salt2 == IF salt.isNil THEN NewSalt(p.SaltLength, src).salt ELSE salt
        hashedPass == IDKey(password.b, salt2.b, p.Iterations, p.MemoryCost,
                            p.Parallelism, p.SaltLength)
    IN  [isNil  |-> FALSE,
         Params |-> parameters,
         Salt   |-> salt2,
         Hash   |-> MkBytes(hashedPass)]

\* A HashCustom that draws a salt whatever salt it is given.
HashCustomAlwaysDraws(password, salt, parameters, heap, src) ==
    LET p     == heap[parameters]
        salt2 == NewSalt(p.SaltLength, src).salt
        hashedPass == IDKey(password.b, salt2.b, p.Iterations, p.MemoryCost,
                            p.Parallelism, p.KeyLength)
    IN  [isNil  |-> FALSE,
         Params |-> parameters,
         Salt   |-> salt2,
         Hash   |-> MkBytes(hashedPass)]

\* A HashCustom that never draws a salt (the package before issue #46).
HashCustomNeverDraws(password, salt, parameters, heap, src) ==
    LET p     == heap[parameters]
        hashedPass == IDKey(password.b, salt.b, p.Iterations, p.MemoryCost,
                            p.Parallelism, p.KeyLength)
    IN  [isNil  |-> FALSE,
         Params |-> parameters,
         Salt   |-> salt,
         Hash   |-> MkBytes(hashedPass)]

\* HashCustom(password, salt, parameters); parameters is a *Params, a
\* reference into heap, and the Hashed returned keeps that reference.
HashCustom(password, salt, parameters, heap, src) ==
    LET p     == heap[parameters]
        salt2 == IF salt.isNil THEN NewSalt(p.SaltLength, src).salt ELSE salt
        hashedPass == IDKey(password.b, salt2.b, p.Iterations, p.MemoryCost,
                            p.Parallelism, p.KeyLength)
    IN  [isNil  |-> FALSE,
         Params |-> parameters,
         Salt   |-> salt2,
         Hash   |-> MkBytes(hashedPass)]

\* The nil *Hashed.
NilHashed ==
    [isNil |-> TRUE, Params |-> "nil", Salt |-> NilBytes, Hash |-> NilBytes]

\* A Hash that checks the password before it draws the salt.
HashChecksPasswordFirst(password, param, heap, src) ==
    LET s    == NewSalt(heap[param].SaltLength, src)
        err1 == IF password.isNil
                THEN NewError("the password is empty") ELSE s.err
    IN  IF err1 # NoError
        THEN [hashed |-> NilHashed,
              err    |-> Wrap(err1, "failed to hash the password")]
        ELSE [hashed |-> HashCustom(password, s.salt, param, heap, src),
              err    |-> NoError]

\* Hash(password); param is the reference of the object NewParams allocated
\* and heap holds it already.
Hash(password, param, heap, src) ==
    LET s    == NewSalt(heap[param].SaltLength, src)
        err1 == IF s.err = NoError /\ password.isNil
                THEN NewError("the password is empty") ELSE s.err
    IN  IF err1 # NoError
        THEN [hashed |-> NilHashed,
              err    |-> Wrap(err1, "failed to hash the password")]
        ELSE [hashed |-> HashCustom(password, s.salt, param, heap, src),
              err    |-> NoError]

\* An IsValidPassword that derives the key with the parameters of
\* NewParams, not with those of the object.
IsValidPasswordDefaults(h, password, heap) ==
    LET p == NewParams
        otherHash == IDKey(password.b, h.Salt.b, p.Iterations, p.MemoryCost,
                           p.Parallelism, p.KeyLength)
    IN  ConstantTimeCompare(h.Hash.b, otherHash) = 1

\* Hashed.IsValidPassword(password)
IsValidPassword(h, password, heap) ==
    LET p == heap[h.Params]
        otherHash == IDKey(password.b, h.Salt.b, p.Iterations, p.MemoryCost,
                           p.Parallelism, p.KeyLength)
    IN  ConstantTimeCompare(h.Hash.b, otherHash) = 1

\* A String that prints the iterations before the memory cost.
StringIterationsFirst(h, heap) ==
    LET p == heap[h.Params]
    IN  <<"$">> \o <<"a", "r", "g", "o", "n", "2", "i", "d">>
        \o <<"$", "v", "=">> \o FormatUint(Version)
        \o <<"$", "t", "=">> \o FormatUint(p.Iterations)
        \o <<",", "m", "=">> \o FormatUint(p.MemoryCost)
        \o <<",", "p", "=">> \o FormatUint(p.Parallelism)
        \o <<"$">> \o EncodeToString(h.Salt.b)
        \o <<"$">> \o EncodeToString(h.Hash.b)

\* A String that encodes salt and hash with padding.
StringPadded(h, heap) ==
    LET p == heap[h.Params]
    IN  <<"$">> \o <<"a", "r", "g", "o", "n", "2", "i", "d">>
        \o <<"$", "v", "=">> \o FormatUint(Version)
        \o <<"$", "m", "=">> \o FormatUint(p.MemoryCost)
        \o <<",", "t", "=">> \o FormatUint(p.Iterations)
        \o <<",", "p", "=">> \o FormatUint(p.Parallelism)
        \o <<"$">> \o EncodeToStringPadded(h.Salt.b)
        \o <<"$">> \o EncodeToStringPadded(h.Hash.b)

\* Hashed.String()
String(h, heap) ==
    LET p == heap[h.Params]
    IN  <<"$">> \o <<"a", "r", "g", "o", "n", "2", "i", "d">>
        \o <<"$", "v", "=">> \o FormatUint(Version)
        \o <<"$", "m", "=">> \o FormatUint(p.MemoryCost)
        \o <<",", "t", "=">> \o FormatUint(p.Iterations)
        \o <<",", "p", "=">> \o FormatUint(p.Parallelism)
        \o <<"$">> \o EncodeToString(h.Salt.b)
        \o <<"$">> \o EncodeToString(h.Hash.b)

\* What DecodeHashStr returns: the error, and on success the contents of
\* the Params object it allocated, the salt and the hash.
DecodeFailure(err) ==
    [err |-> err, Params |-> ZeroParams, Salt |-> NilBytes, Hash |-> NilBytes]

\* A decoder that takes the key length from NewParams, not from the key.
DecodedParamsDefaultKeyLength(ps, lenSalt, lenHash) ==
    [NewParams EXCEPT !.MemoryCost  = ps.m,
                      !.Iterations  = ps.t,
                      !.Parallelism = ps.p,
                      !.SaltLength  = lenSalt]

\* A decoder that takes the salt length from NewParams, not from the salt.
DecodedParamsDefaultSaltLength(ps, lenSalt, lenHash) ==
    [NewParams EXCEPT !.MemoryCost  = ps.m,
                      !.Iterations  = ps.t,
                      !.Parallelism = ps.p,
                      !.KeyLength   = lenHash]

\* The Params of DecodeHashStr: NewParams(), the three fields Sscanf stores
\* and the two lengths assigned at the end.
DecodedParams(ps, lenSalt, lenHash) ==
    [NewParams EXCEPT !.MemoryCost  = ps.m,
                      !.Iterations  = ps.t,
                      !.Parallelism = ps.p,
                      !.SaltLength  = lenSalt,
                      !.KeyLength   = lenHash]

\* A decoder that decodes the salt before it looks at the version.
DecodeValsSaltFirst(vals) ==
    LET v    == SscanfVersion(vals[3])
        ps   == SscanfParams(vals[4])
        salt == DecodeString(vals[5])
        hash == DecodeString(vals[6])
    IN  IF ~salt.ok
        THEN DecodeFailure(Wrap(NewError("illegal base64 data"),
                                "failed to decode salt value"))
        ELSE IF ~v.ok
        THEN DecodeFailure(Wrap(NewError("scan error"),
                                "failed to parse the version"))
        ELSE IF v.version # Version
        THEN DecodeFailure(NewError("incompatible version of Argon2"))
        ELSE IF ~ps.ok
        THEN DecodeFailure(Wrap(NewError("scan error"),
                                "missing parameters in the hash"))
        ELSE IF ~hash.ok
        THEN DecodeFailure(Wrap(NewError("illegal base64 data"),
                                "failed to decode hash value"))
        ELSE IF Len(salt.b) > maxInt32 \/ Len(hash.b) > maxInt32
                \/ Len(salt.b) < minLenSalt
        THEN DecodeFailure(NewError(
                 "hash or salt length is too long or too short"))
        ELSE [err    |-> NoError,
              Params |-> DecodedParams(ps, Len(salt.b), Len(hash.b)),
              Salt   |-> MkBytes(salt.b),
              Hash   |-> MkBytes(hash.b)]

\* DecodeHashStr after the count of the chunks: vals[1] and vals[2] are
\* never looked at.
DecodeVals(vals) ==
    LET v == SscanfVersion(vals[3])
    IN  IF ~v.ok
        THEN DecodeFailure(Wrap(NewError("scan error"),
                                "failed to parse the version"))
        ELSE IF v.version # Version
        THEN DecodeFailure(NewError("incompatible version of Argon2"))
        ELSE
        LET ps   == SscanfParams(vals[4])
            salt == DecodeString(vals[5])
            hash == DecodeString(vals[6])
        IN  IF ~ps.ok
            THEN DecodeFailure(Wrap(NewError("scan error"),
                                    "missing parameters in the hash"))
            ELSE IF ~salt.ok
            THEN DecodeFailure(Wrap(NewError("illegal base64 data"),
                                    "failed to decode salt value"))
            ELSE IF ~hash.ok
            THEN DecodeFailure(Wrap(NewError("illegal base64 data"),
                                    "failed to decode hash value"))
            ELSE IF Len(salt.b) > maxInt32 \/ Len(hash.b) > maxInt32
                    \/ Len(salt.b) < minLenSalt
            THEN DecodeFailure(NewError(
                     "hash or salt length is too long or too short"))
            ELSE [err    |-> NoError,
                  Params |-> DecodedParams(ps, Len(salt.b), Len(hash.b)),
                  Salt   |-> MkBytes(salt.b),
                  Hash   |-> MkBytes(hash.b)]

\* A decoder that refuses too few chunks only.
DecodeHashStrAtLeastChunks(encodedHash) ==
    LET vals == Split(encodedHash)
    IN  IF Len(vals) < lenDecChunks
        THEN DecodeFailure(NewError("invalid hash format"))
        ELSE DecodeVals(vals)

\* DecodeHashStr(encodedHash)
DecodeHashStr(encodedHash) ==
    LET vals == Split(encodedHash)
    IN  IF Len(vals) # lenDecChunks
        THEN DecodeFailure(NewError("invalid hash format"))
        ELSE DecodeVals(vals)

(***************************************************************************)
(* encoding/gob for the type Hashed                                        *)
(***************************************************************************)

\* A gob stream is a []byte that holds the description of a type and one
\* value message: the fields of the value that are not zero, each with its
\* name (on the wire its number), in the order of the struct.  A nil pointer,
\* a number 0 and a slice of length 0 are not sent.
NilGob == [isNil |-> TRUE, descr |-> "", msg |-> <<>>]

\* Bytes that are no gob stream: text.
NotGob == [isNil |-> FALSE, descr |-> "text", msg |-> <<>>]

\* The fields of a Params that go on the wire.
EncodeParams(p) ==
    SelectSeq(<<[name |-> "Iterations",  val |-> p.Iterations],
                [name |-> "KeyLength",   val |-> p.KeyLength],
                [name |-> "MemoryCost",  val |-> p.MemoryCost],
                [name |-> "SaltLength",  val |-> p.SaltLength],
                [name |-> "Parallelism", val |-> p.Parallelism]>>,
              LAMBDA f : f.val # 0)

\* An encoder that does not see the field Salt (as if it were unexported).
EncodeHashedWithoutSalt(h, heap) ==
    (IF h.Params = "nil" THEN <<>>
     ELSE <<[name |-> "Params", fields |-> EncodeParams(heap[h.Params]),
             bytes |-> <<>>]>>)
    \o (IF Len(h.Hash.b) = 0 THEN <<>>
        ELSE <<[name |-> "Hash", fields |-> <<>>, bytes |-> h.Hash.b]>>)

\* enc.Encode(h): the value message of a Hashed.  The struct behind a
\* non-nil Params is sent even when all its fields are zero.
EncodeHashed(h, heap) ==
    (IF h.Params = "nil" THEN <<>>
     ELSE <<[name |-> "Params", fields |-> EncodeParams(heap[h.Params]),
             bytes |-> <<>>]>>)
    \o (IF Len(h.Salt.b) = 0 THEN <<>>
        ELSE <<[name |-> "Salt", fields |-> <<>>, bytes |-> h.Salt.b]>>)
    \o (IF Len(h.Hash.b) = 0 THEN <<>>
        ELSE <<[name |-> "Hash", fields |-> <<>>, bytes |-> h.Hash.b]>>)

\* The value of the field name among the fields received; 0 if it was not
\* sent.
FieldVal(fields, name) ==
    IF \E k \in 1..Len(fields) : fields[k].name = name
    THEN fields[CHOOSE k \in 1..Len(fields) : fields[k].name = name].val
    ELSE 0

\* The Params a decoder fills from the fields received.
DecodeParams(fields) ==
    [Iterations  |-> FieldVal(fields, "Iterations"),
     KeyLength   |-> FieldVal(fields, "KeyLength"),
     MemoryCost  |-> FieldVal(fields, "MemoryCost"),
     SaltLength  |-> FieldVal(fields, "SaltLength"),
     Parallelism |-> FieldVal(fields, "Parallelism")]

\* The message has an entry of this name.
Sent(msg, name) == \E k \in 1..Len(msg) : msg[k].name = name

Entry(msg, name) == msg[CHOOSE k \in 1..Len(msg) : msg[k].name = name]

\* A slice field after dec.Decode into a zero Hashed: nil unless sent.
DecodeSlice(msg, name) ==
    IF Sent(msg, name) THEN MkBytes(Entry(msg, name).bytes) ELSE NilBytes

\* What Gob returns: the bytes and the error.
GobFailure(err) == [bytes |-> NilGob, err |-> err]

\* A Gob that returns what the encoder wrote whether or not there is a
\* hash.
GobWithoutCheck(h, heap) ==
    [bytes |-> [isNil |-> FALSE, descr |-> "Hashed",
                msg |-> EncodeHashed(h, heap)],
     err   |-> NoError]

\* Hashed.Gob()
Gob(h, heap) ==
    LET network == [isNil |-> FALSE, descr |-> "Hashed",
                    msg |-> EncodeHashed(h, heap)]
        err1    == IF h.Hash.isNil THEN NewError("hash value is empty")
                   ELSE NoError
    IN  IF err1 # NoError
        THEN GobFailure(Wrap(err1, "failed to gob encode the hash"))
        ELSE [bytes |-> network, err |-> NoError]

\* What DecodeHashGob returns: the error and the *Hashed, which is nil or
\* has a Params or none, the contents of that Params, the salt and the hash.
GobDecodeFailure(err) ==
    [isNil |-> TRUE, err |-> err, hasParams |-> FALSE, Params |-> ZeroParams,
     Salt |-> NilBytes, Hash |-> NilBytes]

\* A DecodeHashGob that hands out the object it was decoding into together
\* with the error.
DecodeHashGobKeepsObject(gobEncHash) ==
    IF gobEncHash.isNil \/ gobEncHash.descr # "Hashed"
    THEN [isNil |-> FALSE,
          err |-> Wrap(NewError("gob: decode error"),
                       "failed to gob decode the hash"),
          hasParams |-> FALSE, Params |-> ZeroParams,
          Salt |-> NilBytes, Hash |-> NilBytes]
    ELSE [isNil     |-> FALSE,
          err       |-> NoError,
          hasParams |-> Sent(gobEncHash.msg, "Params"),
          Params    |-> IF Sent(gobEncHash.msg, "Params")
                        THEN DecodeParams(Entry(gobEncHash.msg,
                                                "Params").fields)
                        ELSE ZeroParams,
          Salt      |-> DecodeSlice(gobEncHash.msg, "Salt"),
          Hash      |-> DecodeSlice(gobEncHash.msg, "Hash")]

\* DecodeHashGob(gobEncHash): no bytes give io.EOF, bytes that do not begin
\* with the description of the type give a decode error.
DecodeHashGob(gobEncHash) ==
    IF gobEncHash.isNil
    THEN GobDecodeFailure(Wrap(NewError("EOF"),
                               "failed to gob decode the hash"))
    ELSE IF gobEncHash.descr # "Hashed"
    THEN GobDecodeFailure(Wrap(NewError("gob: decode error"),
                               "failed to gob decode the hash"))
    ELSE [isNil     |-> FALSE,
          err       |-> NoError,
          hasParams |-> Sent(gobEncHash.msg, "Params"),
          Params    |-> IF Sent(gobEncHash.msg, "Params")
                        THEN DecodeParams(Entry(gobEncHash.msg,
                                                "Params").fields)
                        ELSE ZeroParams,
          Salt      |-> DecodeSlice(gobEncHash.msg, "Salt"),
          Hash      |-> DecodeSlice(gobEncHash.msg, "Hash")]

(***************************************************************************)
(* Type Salt: a slice, and append                                          *)
(***************************************************************************)

\* A slice is a view of len bytes on a backing array with room for cap;
\* arrays are held in a heap, a sequence of arrays, and arr is the index of
\* the array there (0 for the nil slice).  Copying a Salt copies the view,
\* not the array.
NilSlice == [isNil |-> TRUE, arr |-> 0, len |-> 0, cap |-> 0]

\* The bytes seen through slice s.
View(arrs, s) == IF s.arr = 0 THEN <<>> ELSE SubSeq(arrs[s.arr], 1, s.len)

\* make([]byte, n) filled with bytes: a new array of exactly that size.
Make(arrs, bytes) ==
    [arrays |-> Append(arrs, bytes),
     slice  |-> [isNil |-> FALSE, arr |-> Len(arrs) + 1,
                 len |-> Len(bytes), cap |-> Len(bytes)]]

\* The allocation sizes of the Go runtime for small objects.
SizeClasses == {8, 16, 24, 32, 48, 64, 80, 96, 112, 128}

RoundUpSize(n) ==
    CHOOSE c \in SizeClasses :
        c >= n /\ \A d \in SizeClasses : d >= n => c <= d

\* The capacity the Go runtime gives the array append allocates for newLen
\* bytes when the old capacity was oldCap (below 256).
GrowCap(oldCap, newLen) ==
    RoundUpSize(IF newLen > 2 * oldCap THEN newLen ELSE 2 * oldCap)

\* The language asks only for an array that is large enough: the capacity
\* after growth is the runtime's choice, here that of the Go runtime or no
\* spare room at all.
NewCaps(oldCap, newLen) == {newLen, GrowCap(oldCap, newLen)}

\* append(s, bytes...): writes behind the len bytes of s into the array of
\* s when that has room, otherwise into a new array of capacity newCap that
\* starts with the bytes of s.
append(arrs, s, bytes, newCap) ==
    LET n == Len(bytes)
    IN  IF n = 0 THEN [arrays |-> arrs, slice |-> s]
        ELSE IF s.len + n <= s.cap
        THEN [arrays |-> [arrs EXCEPT ![s.arr] =
                             [i \in 1..s.cap |->
                                 IF i > s.len /\ i <= s.len + n
                                 THEN bytes[i - s.len] ELSE @[i]]],
              slice  |-> [s EXCEPT !.len = s.len + n]]
        ELSE [arrays |-> Append(arrs,
                                [i \in 1..newCap |->
                                    IF i <= s.len THEN arrs[s.arr][i]
                                    ELSE IF i <= s.len + n
                                    THEN bytes[i - s.len] ELSE 0]),
              slice  |-> [isNil |-> FALSE, arr |-> Len(arrs) + 1,
                          len |-> s.len + n, cap |-> newCap]]

\* An AddPepper that puts the pepper in front: *s = append(pepper, *s...).
AddPepperInFront(arrs, s, pepper, newCap) ==
    Make(arrs, pepper \o View(arrs, s))

\* Salt.AddPepper(pepper): *s = append(*s, pepper...)
AddPepper(arrs, s, pepper, newCap) == append(arrs, s, pepper, newCap)

(***************************************************************************)
(* The program: a caller of the package                                    *)
(***************************************************************************)

\* The caller makes two calls that return a *Hashed and keeps both results:
\* slot 1 the first, slot 2 the second.
Slots == {1, 2}

\* The *Params the caller owns, and the object that the call which filled a
\* slot allocated with NewParams (Hash and DecodeHashStr do).
CallerRef == "caller"

OwnRef(i) == IF i = 1 THEN "own1" ELSE "own2"

ParamRefs == {CallerRef} \cup {OwnRef(i) : i \in Slots}

VARIABLES
    RandRead,   \* the function the package variable RandRead is bound to
    params,     \* the heap of Params objects, by reference
    hashed,     \* per slot, the *Hashed the call returned
    err,        \* per slot, the error the call returned
    call,       \* per slot, the call that filled it: function and arguments
    gobbed,     \* what Gob returned for the *Hashed of slot 1
    salted,     \* what the caller's own call of NewSalt returned
    arrays,     \* the heap of the backing arrays of the caller's salts
    saltVars,   \* the Salt variables of the caller, and h.Salt
    lastPepper  \* the last call of AddPepper: variable, bytes before, pepper

vars ==
    <<RandRead, params, hashed, err, call, gobbed, salted, arrays, saltVars,
      lastPepper>>

\* The variables of the salts the caller holds.
sliceVars == <<arrays, saltVars, lastPepper>>

\* The caller's variable salt, a copy of it, and the field Salt of the
\* Hashed of slot 1.
SaltNames == {"salt", "copy", "h"}

\* A Salt variable that holds nothing yet.  base is what the variable held
\* when it was last bound, added the peppers it was given since.
NoSaltVar == [bound |-> FALSE, hdr |-> NilSlice, base |-> <<>>, added |-> <<>>]

\* AddPepper not called yet.
NoPepper == [name |-> "none", before |-> <<>>, pepper |-> <<>>, calls |-> 0]

NoSource == [reader |-> "none", stream |-> 0]

\* No call yet.
NoCall ==
    [op |-> "none", password |-> NilBytes, salt |-> NilBytes,
     params |-> ZeroParams, src |-> NoSource, encodedHash |-> <<>>,
     gobEncHash |-> NilGob]

\* Gob not called yet.
NoGob == [op |-> "none", bytes |-> NilGob, err |-> NoError]

\* NewSalt not called yet.
NoSalt ==
    [op |-> "none", lenOut |-> 0, src |-> NoSource, salt |-> NilBytes,
     err |-> NoError]

\* The passwords the caller hashes, and the candidates it verifies.
Passwords == {NilBytes, MkBytes(<<>>), MkBytes(<<97>>)}

Candidates == Passwords \cup {MkBytes(<<98>>)}

\* The salts the caller hands to HashCustom: none, an empty one, the four
\* bytes "salt" of TestHashCustom_fix_issue46 and the eight bytes
\* "saltsalt".
Salts ==
    {NilBytes, MkBytes(<<>>), MkBytes(<<115, 97, 108, 116>>),
     MkBytes(<<115, 97, 108, 116, 115, 97, 108, 116>>)}

\* The values the caller gives its Params besides the defaults.
ParamChoices ==
    {[Iterations |-> 2, KeyLength |-> 4, MemoryCost |-> 32768,
      SaltLength |-> 0, Parallelism |-> 2],
     [NewParams EXCEPT !.KeyLength = 4]}

\* What RandRead delivers to a call that fills slot i.  crypto/rand.Read
\* does not deliver to the second call the bytes it delivered to the first
\* (the chance of that is 2^-8n for n bytes).
Sources(i) ==
    IF RandRead = "crypto"
    THEN {[reader |-> "crypto", stream |-> k] :
             k \in {k \in 1..NumStreams :
                       i = 1 \/ call[1].src.stream # k}}
    ELSE {[reader |-> RandRead, stream |-> 0]}

Init ==
    /\ RandRead = "crypto"
    /\ params = [r \in ParamRefs |->
                    IF r = CallerRef THEN NewParams ELSE ZeroParams]
    /\ hashed = [i \in Slots |-> NilHashed]
    /\ err = [i \in Slots |-> NoError]
    /\ call = [i \in Slots |-> NoCall]
    /\ gobbed = NoGob
    /\ salted = NoSalt
    /\ arrays = <<>>
    /\ saltVars = [v \in SaltNames |-> NoSaltVar]
    /\ lastPepper = NoPepper

\* The caller may fill slot i: each slot once, the first before the second.
MayFill(i) == call[i].op = "none" /\ (i = 1 \/ call[1].op # "none")

\* Slot i takes the outcome of a call.  heap is the heap after the call.
Fill(i, h, e, c, heap) ==
    /\ hashed' = [hashed EXCEPT ![i] = h]
    /\ err' = [err EXCEPT ![i] = e]
    /\ call' = [call EXCEPT ![i] = c]
    /\ params' = heap
    /\ UNCHANGED <<gobbed, salted, sliceVars>>

\* hashed[i], err[i] := Hash(password)
CallHash(i, password, src) ==
    LET heap == [params EXCEPT ![OwnRef(i)] = NewParams]
        r    == Hash(password, OwnRef(i), heap, src)
    IN  /\ Fill(i, r.hashed, r.err,
                [NoCall EXCEPT !.op = "Hash", !.password = password,
                               !.params = NewParams, !.src = src],
                IF r.hashed.isNil THEN params ELSE heap)
        /\ UNCHANGED RandRead

\* hashed[i] := HashCustom(password, salt, params) with the caller's Params.
\* The record of the call keeps what RandRead had to deliver only for a call
\* without a salt.
CallHashCustom(i, password, salt, src) ==
    LET r == HashCustom(password, salt, CallerRef, params, src)
    IN  /\ Fill(i, r, NoError,
                [NoCall EXCEPT !.op = "HashCustom", !.password = password,
                               !.salt = salt, !.params = params[CallerRef],
                               !.src = IF salt.isNil THEN src ELSE NoSource],
                params)
        /\ UNCHANGED RandRead

\* hashed[i], err[i] := DecodeHashStr(encodedHash)
CallDecodeHashStr(i, encodedHash) ==
    LET r == DecodeHashStr(encodedHash)
    IN  /\ Fill(i,
                IF r.err # NoError THEN NilHashed
                ELSE [isNil |-> FALSE, Params |-> OwnRef(i),
                      Salt |-> r.Salt, Hash |-> r.Hash],
                r.err,
                [NoCall EXCEPT !.op = "DecodeHashStr",
                               !.encodedHash = encodedHash],
                [params EXCEPT ![OwnRef(i)] = r.Params])
        /\ UNCHANGED RandRead

\* The caller hashes a password with the defaults.
DoHash ==
    \E i \in Slots, password \in Passwords :
        /\ MayFill(i)
        /\ \E src \in Sources(i) : CallHash(i, password, src)

\* The caller hashes a password with its own parameters and a salt of its
\* own, or with none.
DoHashCustom ==
    \E i \in Slots, password \in Passwords, salt \in Salts :
        /\ MayFill(i)
        /\ \E src \in Sources(i) : CallHashCustom(i, password, salt, src)

\* The caller decodes the string of its first result.
DoDecodeStored ==
    /\ MayFill(2)
    /\ ~hashed[1].isNil
    /\ CallDecodeHashStr(2, String(hashed[1], params))

\* A test binds RandRead to another function.
SetRandRead ==
    \E r \in RandReaders :
        /\ r # RandRead
        /\ RandRead' = r
        /\ UNCHANGED <<params, hashed, err, call, gobbed, salted, sliceVars>>

\* The caller assigns the fields of its Params.
SetFields ==
    \E p \in ParamChoices :
        /\ params[CallerRef] # p
        /\ params' = [params EXCEPT ![CallerRef] = p]
        /\ UNCHANGED <<RandRead, hashed, err, call, gobbed, salted, sliceVars>>

\* The caller calls SetDefault on its Params.
CallSetDefault ==
    /\ params[CallerRef] # SetDefault(params[CallerRef])
    /\ params' = [params EXCEPT ![CallerRef] = SetDefault(@)]
    /\ UNCHANGED <<RandRead, hashed, err, call, gobbed, salted, sliceVars>>

Next ==
    \/ DoHash
    \/ DoHashCustom
    \/ DoDecodeStored
    \/ SetRandRead
    \/ SetFields
    \/ CallSetDefault

Spec == Init /\ [][Next]_vars

(***************************************************************************)
(* The decoder on strings of any origin                                    *)
(***************************************************************************)

\* What stands before the first "$": nothing, or some text.
PreSegs ==
    {<<>>,
     <<"x">>}

\* The algorithm tag.
TagSegs ==
    {<<"a", "r", "g", "o", "n", "2", "i", "d">>,
     <<"a", "r", "g", "o", "n", "2", "i">>}

\* The version segment: the version of the package, those of
\* _DecodeHashStrBadCases, another number, and ones fmt.Sscanf reads as 19.
VerSegs ==
    {<<"v", "=", "1", "9">>,
     <<"v", "=", "9", "9", "9">>,
     <<"v", "=", "1", "6">>,
     <<"v", "=", "m", "y", "v", "e", "r", "s", "i", "o", "n">>,
     <<"v", "=", "1", "9", "x">>,
     <<"v", "=", "+", "0", "1", "9">>,
     <<"v", "=", " ", "1", "9">>}

\* The parameter segment: that of ExampleDecodeHashStr, the bad one of
\* _DecodeHashStrBadCases, a number with a leading zero, a p beyond uint8, an
\* m beyond uint32, a missing field, another order, other separators, text
\* after the last number, and one with no value of NewParams in it.
ParSegs ==
    {<<"m", "=", "6", "5", "5", "3", "6", ",", "t", "=", "3", ",", "p", "=",
       "2">>,
     <<"m", "=", "6", "5", "5", "3", "6", ",", "t", "=", "m", "y", "t", "i",
       "m", "e", ",", "p", "=", "2">>,
     <<"m", "=", "0", "6", "5", "5", "3", "6", ",", "t", "=", "3", ",", "p",
       "=", "2">>,
     <<"m", "=", "6", "5", "5", "3", "6", ",", "t", "=", "3", ",", "p", "=",
       "2", "5", "6">>,
     <<"m", "=", "4", "2", "9", "4", "9", "6", "7", "2", "9", "6", ",", "t",
       "=", "3", ",", "p", "=", "2">>,
     <<"m", "=", "6", "5", "5", "3", "6", ",", "t", "=", "3">>,
     <<"t", "=", "3", ",", "m", "=", "6", "5", "5", "3", "6", ",", "p", "=",
       "2">>,
     <<"m", "=", "6", "5", "5", "3", "6", ";", "t", "=", "3", ";", "p", "=",
       "2">>,
     <<"m", "=", "6", "5", "5", "3", "6", ",", "t", "=", "3", ",", "p", "=",
       "2", "x">>,
     <<"m", "=", "3", "2", "7", "6", "8", ",", "t", "=", "2", ",", "p", "=",
       "1">>}

\* The salt segment: 16 bytes, 8 bytes, 7 bytes, 2 bytes, one with characters
\* outside the alphabet, one with padding and one with a line feed.
SaltSegs ==
    {<<"W", "o", "o", "1", "m", "E", "r", "n", "1", "s", "7", "A", "H", "f",
       "9", "6", "e", "w", "Q", "8", "U", "w">>,
     <<"c", "2", "F", "s", "d", "H", "N", "h", "b", "H", "Q">>,
     <<"c", "2", "F", "s", "d", "H", "N", "h", "b", "A">>,
     <<"W", "o", "o">>,
     <<"%", "%", "B", "A", "D", "S", "A", "L", "T", "%", "%">>,
     <<"c", "2", "F", "s", "d", "H", "N", "h", "b", "H", "Q", "=">>,
     <<"c", "2", "F", "s", "\n", "d", "H", "N", "h", "b", "H", "Q">>}

\* The key segment: 32 bytes, 3 bytes, none, one with characters outside the
\* alphabet and one with padding.
KeySegs ==
    {<<"D", "4", "T", "z", "I", "w", "G", "O", "4", "X", "D", "2", "b", "u",
       "k", "9", "6", "q", "A", "P", "+", "E", "d", "2", "b", "a", "M", "o",
       "/", "K", "b", "T", "R", "M", "q", "X", "X", "0", "0", "w", "t", "s",
       "U">>,
     <<"A", "A", "E", "C">>,
     <<>>,
     <<"D", "4", "T", "z", "I", "w", "G", "O", "4", "X", "D", "2", "b", "u",
       "k", "9", "6", "q", "A", "P", "+", "E", "d", "2", "b", "a", "M", "o",
       "/", "%", "%", "B", "A", "D", "H", "A", "S", "H", "%", "%">>,
     <<"A", "A", "E", "C", "A", "w", "=", "=">>}

\* The first of _DecodeHashStrBadCases: no "$" at all.
NoChunks ==
    <<"a", "r", "g", "o", "n", "2", "i", "d", ";", "v", "=", "1", "9",
    ";", "m", "=", "6", "5", "5", "3", "6", ",", "t", "=", "3", ",", "p",
    "=", "1", ";", "c", "2", "9", "t", "Z", "S", "1", "h", "c", "3", "N",
    "l", "d", "A", "=", "=", ";", "c", "2", "9", "t", "Z", "S", "1", "h",
    "c", "3", "N", "l", "d", "A", "=", "=">>

\* strings.Join(segs, "$")
RECURSIVE Join(_)
Join(segs) ==
    IF Len(segs) = 1 THEN segs[1]
    ELSE segs[1] \o <<"$">> \o Join(Tail(segs))

\* The strings handed to DecodeHashStr: six segments, five (the key and its
\* "$" cut off), seven (one more segment), and one without any "$".
InputStrings ==
    LET five == {<<pre, tag, ver, par, salt>> :
                    pre \in PreSegs, tag \in TagSegs, ver \in VerSegs,
                    par \in ParSegs, salt \in SaltSegs}
        six  == {f \o <<key>> : f \in five, key \in KeySegs}
    IN  {Join(f) : f \in five} \cup {Join(x) : x \in six}
        \cup {Join(x \o <<<<"x">>>>) : x \in six} \cup {NoChunks}

\* The caller decodes a string it got from elsewhere, as its first call.
DoDecodeInput ==
    /\ MayFill(1)
    /\ \E encodedHash \in InputStrings : CallDecodeHashStr(1, encodedHash)

NextDecode == DoDecodeInput

SpecDecode == Init /\ [][NextDecode]_vars

(***************************************************************************)
(* The caller that stores a hash as gob                                    *)
(***************************************************************************)

\* The *Hashed a caller makes with new(Hashed): all fields nil.
ZeroHashed ==
    [isNil |-> FALSE, Params |-> "nil", Salt |-> NilBytes, Hash |-> NilBytes]

\* Stored strings of _DecodeHashStrBadCases, and the one of
\* ExampleDecodeHashStr with a key of three bytes.
StoredStrings ==
    {NoChunks,
     Join(<<<<>>, <<"a", "r", "g", "o", "n", "2", "i", "d">>,
            <<"v", "=", "9", "9", "9">>,
            <<"m", "=", "6", "5", "5", "3", "6", ",", "t", "=", "3", ",",
              "p", "=", "2">>,
            <<"W", "o", "o">>, <<"A", "A", "E", "C">>>>),
     Join(<<<<>>, <<"a", "r", "g", "o", "n", "2", "i", "d">>,
            <<"v", "=", "1", "9">>,
            <<"m", "=", "6", "5", "5", "3", "6", ",", "t", "=", "3", ",",
              "p", "=", "2">>,
            <<"W", "o", "o">>, <<"A", "A", "E", "C">>>>),
     Join(<<<<>>, <<"a", "r", "g", "o", "n", "2", "i", "d">>,
            <<"v", "=", "1", "9">>,
            <<"m", "=", "6", "5", "5", "3", "6", ",", "t", "=", "3", ",",
              "p", "=", "2">>,
            <<"c", "2", "F", "s", "d", "H", "N", "h", "b", "H", "Q">>,
            <<"A", "A", "E", "C">>>>),
     Join(<<<<>>, <<"a", "r", "g", "o", "n", "2", "i", "d">>,
            <<"v", "=", "1", "9">>,
            <<"m", "=", "6", "5", "5", "3", "6", ",", "t", "=", "3", ",",
              "p", "=", "2">>,
            <<"c", "2", "F", "s", "d", "H", "N", "h", "b", "H", "Q">>,
            <<>>>>)}

\* hashed[i], err[i] := DecodeHashGob(gobEncHash)
CallDecodeHashGob(i, gobEncHash) ==
    LET r == DecodeHashGob(gobEncHash)
    IN  /\ Fill(i,
                IF r.isNil THEN NilHashed
                ELSE [isNil |-> FALSE,
                      Params |-> IF r.hasParams THEN OwnRef(i) ELSE "nil",
                      Salt |-> r.Salt, Hash |-> r.Hash],
                r.err,
                [NoCall EXCEPT !.op = "DecodeHashGob",
                               !.gobEncHash = gobEncHash],
                IF r.hasParams THEN [params EXCEPT ![OwnRef(i)] = r.Params]
                ELSE params)
        /\ UNCHANGED RandRead

\* The caller's first call is Hash.
DoHashFirst ==
    /\ MayFill(1)
    /\ \E password \in Passwords, src \in Sources(1) :
           CallHash(1, password, src)

\* The caller's first call is HashCustom.
DoHashCustomFirst ==
    /\ MayFill(1)
    /\ \E password \in Passwords, salt \in Salts, src \in Sources(1) :
           CallHashCustom(1, password, salt, src)

\* The caller's first call is DecodeHashStr of a stored string.
DoDecodeStoredString ==
    /\ MayFill(1)
    /\ \E encodedHash \in StoredStrings : CallDecodeHashStr(1, encodedHash)

\* The caller makes a Hashed itself, as TestHashed_Gob does.
DoNewHashed ==
    /\ MayFill(1)
    /\ Fill(1, ZeroHashed, NoError, [NoCall EXCEPT !.op = "new"], params)
    /\ UNCHANGED RandRead

\* gobbed := hashed[1].Gob()
DoGob ==
    /\ gobbed.op = "none"
    /\ ~hashed[1].isNil
    /\ LET r == Gob(hashed[1], params)
       IN  gobbed' = [op |-> "Gob", bytes |-> r.bytes, err |-> r.err]
    /\ UNCHANGED <<RandRead, params, hashed, err, call, salted, sliceVars>>

\* The caller decodes what Gob returned, or nil, or bytes that are not gob.
DoDecodeHashGob ==
    /\ MayFill(2)
    /\ \E gobEncHash \in {gobbed.bytes, NilGob, NotGob} :
           CallDecodeHashGob(2, gobEncHash)

\* salted := NewSalt(params.SaltLength), as the caller of
\* Example_custom_user_defined_params does before it hashes.
DoNewSalt ==
    /\ salted.op = "none"
    /\ call[1].op = "none"
    /\ \E src \in Sources(1) :
           LET r == NewSalt(params[CallerRef].SaltLength, src)
           IN  salted' = [op |-> "NewSalt",
                          lenOut |-> params[CallerRef].SaltLength,
                          src |-> src, salt |-> r.salt, err |-> r.err]
    /\ UNCHANGED <<RandRead, params, hashed, err, call, gobbed, sliceVars>>

NextGob ==
    \/ DoHashFirst
    \/ DoHashCustomFirst
    \/ DoDecodeStoredString
    \/ DoNewHashed
    \/ DoGob
    \/ DoDecodeHashGob
    \/ DoNewSalt
    \/ SetRandRead
    \/ SetFields
    \/ CallSetDefault

SpecGob == Init /\ [][NextGob]_vars

(***************************************************************************)
(* The caller that peppers its salt                                        *)
(***************************************************************************)

\* The peppers of the caller.
Peppers == {<<112>>, <<113, 114>>}

\* The number of AddPepper calls the caller makes.
MaxPeppers == 3

\* The lengths the caller asks NewSalt for.
SaltLens == {0, SaltLengthDefault}

\* The []byte that a Salt variable hands to a function.
SaltBytes(v) ==
    [isNil |-> saltVars[v].hdr.isNil, b |-> View(arrays, saltVars[v].hdr)]

\* salt, err := NewSalt(lenOut).  A salt that was drawn has an array of its
\* own with no spare room; after an error salt is nil.
DoMakeSalt ==
    /\ ~saltVars["salt"].bound
    /\ \E lenOut \in SaltLens, src \in Sources(1) :
           LET r == NewSalt(lenOut, src)
               m == Make(arrays, r.salt.b)
           IN  /\ arrays' = IF r.err = NoError THEN m.arrays ELSE arrays
               /\ saltVars' =
                      [saltVars EXCEPT !["salt"] =
                          [bound |-> TRUE,
                           hdr   |-> IF r.err = NoError THEN m.slice
                                     ELSE NilSlice,
                           base  |-> r.salt.b,
                           added |-> <<>>]]
               /\ salted' = [op |-> "NewSalt", lenOut |-> lenOut,
                             src |-> src, salt |-> r.salt, err |-> r.err]
    /\ UNCHANGED <<RandRead, params, hashed, err, call, gobbed, lastPepper>>

\* v.AddPepper(pepper) for a variable v of the caller.
DoAddPepper ==
    \E v \in {"salt", "copy"}, pepper \in Peppers :
        /\ saltVars[v].bound
        /\ lastPepper.calls < MaxPeppers
        /\ \E newCap \in NewCaps(saltVars[v].hdr.cap,
                                 saltVars[v].hdr.len + Len(pepper)) :
               LET r == AddPepper(arrays, saltVars[v].hdr, pepper, newCap)
               IN  /\ arrays' = r.arrays
                   /\ saltVars' =
                          [saltVars EXCEPT
                              ![v].hdr = r.slice,
                              ![v].added = @ \o pepper]
                   /\ lastPepper' =
                          [name   |-> v,
                           before |-> View(arrays, saltVars[v].hdr),
                           pepper |-> pepper,
                           calls  |-> lastPepper.calls + 1]
        /\ UNCHANGED <<RandRead, params, hashed, err, call, gobbed, salted>>

\* copy := salt.  From here on both variables are copies of one salt.
DoCopySalt ==
    /\ saltVars["salt"].bound
    /\ ~saltVars["copy"].bound
    /\ LET now == [bound |-> TRUE, hdr |-> saltVars["salt"].hdr,
                   base  |-> View(arrays, saltVars["salt"].hdr),
                   added |-> <<>>]
       IN  saltVars' = [saltVars EXCEPT !["salt"] = now, !["copy"] = now]
    /\ UNCHANGED <<RandRead, params, hashed, err, call, gobbed, salted,
                   arrays, lastPepper>>

\* hashed[1] := HashCustom(password, salt, params) with the caller's salt,
\* as in Example_custom_params.  The Hashed keeps the slice it was given.
DoHashCustomSalted ==
    /\ MayFill(1)
    /\ saltVars["salt"].bound
    /\ ~saltVars["salt"].hdr.isNil
    /\ \E password \in Passwords :
           /\ hashed' = [hashed EXCEPT ![1] =
                            HashCustom(password, SaltBytes("salt"),
                                       CallerRef, params, NoSource)]
           /\ call' = [call EXCEPT ![1] =
                          [NoCall EXCEPT !.op = "HashCustom",
                                         !.password = password,
                                         !.salt = SaltBytes("salt"),
                                         !.params = params[CallerRef]]]
    /\ saltVars' = [saltVars EXCEPT !["h"] =
                       [bound |-> TRUE, hdr |-> saltVars["salt"].hdr,
                        base  |-> View(arrays, saltVars["salt"].hdr),
                        added |-> <<>>]]
    /\ UNCHANGED <<RandRead, params, err, gobbed, salted, arrays, lastPepper>>

NextPepper ==
    \/ DoMakeSalt
    \/ DoAddPepper
    \/ DoCopySalt
    \/ DoHashCustomSalted

SpecPepper == Init /\ [][NextPepper]_vars

(***************************************************************************)
(* Properties                                                              *)
(***************************************************************************)

\* The Params the result of slot i points to hold what they held when the
\* call returned: the caller has not assigned to them since.
AsReturned(i) ==
    hashed[i].Params # CallerRef \/ params[CallerRef] = call[i].params

\* Slot 2 holds DecodeHashStr(h.String()) for the h of slot 1, a result of
\* Hash or HashCustom.
DecodedFromFirst ==
    /\ call[1].op \in {"Hash", "HashCustom"}
    /\ ~hashed[1].isNil
    /\ call[2].op = "DecodeHashStr"
    /\ call[2].encodedHash = String(hashed[1], params)

\* The key argon2.IDKey derives from candidate c with the salt and the
\* parameters of h.
DerivedKey(c, h) ==
    IDKey(c.b, h.Salt.b, params[h.Params].Iterations,
          params[h.Params].MemoryCost, params[h.Params].Parallelism,
          params[h.Params].KeyLength)

\* tok is the decimal numeral of n: digits only, no leading zero.
IsDecimalOf(tok, n) ==
    /\ tok # <<>>
    /\ \A k \in 1..Len(tok) : IsDigit(tok[k])
    /\ Len(tok) > 1 => tok[1] # "0"
    /\ DigitsValue(tok) = n

\* seg is "m=<m>,t=<t>,p=<p>" with decimal numerals.
IsParamSegment(seg, m, t, p) ==
    \E i, j \in 1..Len(seg) :
        /\ i < j
        /\ seg[i] = "," /\ seg[j] = ","
        /\ SubSeq(seg, 1, 2) = <<"m", "=">>
        /\ IsDecimalOf(SubSeq(seg, 3, i - 1), m)
        /\ SubSeq(seg, i + 1, i + 2) = <<"t", "=">>
        /\ IsDecimalOf(SubSeq(seg, i + 3, j - 1), t)
        /\ SubSeq(seg, j + 1, j + 2) = <<"p", "=">>
        /\ IsDecimalOf(SubSeq(seg, j + 3, Len(seg)), p)

\* The number of "$" in s.
NumSeps(s) == Cardinality({k \in 1..Len(s) : s[k] = "$"})

\* The entropy source of the call that filled slot i succeeded.
EntropyOK(i) == call[i].src.reader \in {"crypto", "static"}

\* Both slots hold results of HashCustom for the same password and equal
\* parameters.
TwoHashCustom ==
    /\ call[1].op = "HashCustom" /\ call[2].op = "HashCustom"
    /\ call[1].password = call[2].password
    /\ call[1].params = call[2].params

\* C1: for every non-empty password p, when the entropy source succeeds,
\* Hash(p) returns a result h and no error, and h.IsValidPassword(p) is true.
HashVerifiesItsPassword ==
    \A i \in Slots :
        (call[i].op = "Hash" /\ Len(call[i].password.b) > 0 /\ EntropyOK(i))
        => /\ err[i] = NoError
           /\ ~hashed[i].isNil
           /\ IsValidPassword(hashed[i], call[i].password, params)

HashVerifiesItsPasswordWitness ==
    \E i \in Slots :
        /\ call[i].op = "Hash"
        /\ call[i].password = MkBytes(<<97>>)
        /\ call[i].src.reader = "crypto"
        /\ ~hashed[i].isNil
        /\ IsValidPassword(hashed[i], call[i].password, params)

\* C2: h.IsValidPassword(c) is true iff the key derived from c with h.Salt
\* and h.Params equals h.Hash in length and content; a result of Hash(p)
\* rejects every candidate whose derived key differs from that of p, an
\* empty candidate included.
VerifiesIffDerivedKeyEqual ==
    \A i \in Slots :
        ~hashed[i].isNil =>
            /\ \A c \in Candidates :
                   IsValidPassword(hashed[i], c, params)
                       <=> /\ Len(DerivedKey(c, hashed[i]))
                                  = Len(hashed[i].Hash.b)
                           /\ DerivedKey(c, hashed[i]) = hashed[i].Hash.b
            /\ call[i].op = "Hash" =>
                   \A c \in Candidates :
                       DerivedKey(c, hashed[i])
                               # DerivedKey(call[i].password, hashed[i])
                           => ~IsValidPassword(hashed[i], c, params)

\* Slot 1 holds Hash("a"), which rejects the empty candidates and "b"; slot
\* 2 holds a result of HashCustom whose key is longer than the KeyLength its
\* Params hold by now, which rejects its own password.
VerifiesIffDerivedKeyEqualWitness ==
    /\ call[1].op = "Hash" /\ ~hashed[1].isNil
    /\ call[1].password = MkBytes(<<97>>)
    /\ IsValidPassword(hashed[1], MkBytes(<<97>>), params)
    /\ ~IsValidPassword(hashed[1], MkBytes(<<98>>), params)
    /\ ~IsValidPassword(hashed[1], MkBytes(<<>>), params)
    /\ ~IsValidPassword(hashed[1], NilBytes, params)
    /\ call[2].op = "HashCustom"
    /\ Len(hashed[2].Hash.b) # params[hashed[2].Params].KeyLength
    /\ ~IsValidPassword(hashed[2], call[2].password, params)

\* C3, as amended: for every h returned by Hash, or by HashCustom when the
\* salt of h has at least 8 bytes, DecodeHashStr(h.String()) succeeds and
\* its result equals h in Iterations, MemoryCost, Parallelism, the salt
\* bytes and the key bytes; its KeyLength is len(h.Hash), the KeyLength of h
\* as returned, and its SaltLength is len(h.Salt), the SaltLength of h as
\* returned when the call drew the salt itself.
DecodeRestoresStoredHash ==
    (/\ DecodedFromFirst
     /\ call[1].op = "Hash" \/ Len(hashed[1].Salt.b) >= 8)
    => /\ err[2] = NoError
       /\ ~hashed[2].isNil
       /\ params[hashed[2].Params].Iterations
              = params[hashed[1].Params].Iterations
       /\ params[hashed[2].Params].MemoryCost
              = params[hashed[1].Params].MemoryCost
       /\ params[hashed[2].Params].Parallelism
              = params[hashed[1].Params].Parallelism
       /\ hashed[2].Salt.b = hashed[1].Salt.b
       /\ hashed[2].Hash.b = hashed[1].Hash.b
       /\ params[hashed[2].Params].KeyLength = Len(hashed[1].Hash.b)
       /\ params[hashed[2].Params].SaltLength = Len(hashed[1].Salt.b)
       /\ AsReturned(1) =>
              params[hashed[2].Params].KeyLength
                  = params[hashed[1].Params].KeyLength
       /\ (AsReturned(1) /\ call[1].src # NoSource) =>
              params[hashed[2].Params].SaltLength
                  = params[hashed[1].Params].SaltLength

\* The string of a HashCustom result with the explicit salt "saltsalt" is
\* decoded: the SaltLength decoded is 8, that of the original is not.
DecodeRestoresStoredHashWitness ==
    /\ DecodedFromFirst
    /\ AsReturned(1)
    /\ call[1].op = "HashCustom"
    /\ Len(call[1].salt.b) = 8
    /\ err[2] = NoError
    /\ hashed[2].Salt.b = hashed[1].Salt.b
    /\ params[hashed[2].Params].SaltLength = 8
    /\ params[hashed[1].Params].SaltLength # 8

\* C3, as the claim states it: for every h returned by Hash or HashCustom
\* (any password, any salt, any parameters) DecodeHashStr(h.String())
\* succeeds and equals h in all five Params fields, the salt and the key.
DecodeRestoresEveryField ==
    (DecodedFromFirst /\ AsReturned(1))
    => /\ err[2] = NoError
       /\ ~hashed[2].isNil
       /\ params[hashed[2].Params] = params[hashed[1].Params]
       /\ hashed[2].Salt.b = hashed[1].Salt.b
       /\ hashed[2].Hash.b = hashed[1].Hash.b

\* C4: for every string s that DecodeHashStr accepts,
\* DecodeHashStr(s).String() is exactly s.
ReencodingReproducesInput ==
    \A i \in Slots :
        (call[i].op = "DecodeHashStr" /\ err[i] = NoError)
        => String(hashed[i], params) = call[i].encodedHash

\* C5: for every h returned by Hash, or by HashCustom with a salt of at
\* least 8 bytes, d = DecodeHashStr(h.String()) accepts exactly the
\* candidates h accepts, also when h.Params.SaltLength is not len(h.Salt).
StoredStringVerifiesTheSame ==
    (/\ DecodedFromFirst
     /\ AsReturned(1)
     /\ call[1].op = "Hash" \/ Len(hashed[1].Salt.b) >= 8)
    => /\ err[2] = NoError
       /\ ~hashed[2].isNil
       /\ \A c \in Candidates :
              IsValidPassword(hashed[2], c, params)
                  <=> IsValidPassword(hashed[1], c, params)

\* HashCustom("a", "saltsalt", params) with a SaltLength that is not 8 and a
\* KeyLength that is not the default: the decoded string accepts "a" and
\* rejects "b".
StoredStringVerifiesTheSameWitness ==
    /\ DecodedFromFirst
    /\ AsReturned(1)
    /\ call[1].op = "HashCustom"
    /\ call[1].password = MkBytes(<<97>>)
    /\ Len(hashed[1].Salt.b) = 8
    /\ params[hashed[1].Params].SaltLength # 8
    /\ params[hashed[1].Params].KeyLength # KeyLengthDefault
    /\ IsValidPassword(hashed[2], MkBytes(<<97>>), params)
    /\ IsValidPassword(hashed[1], MkBytes(<<97>>), params)
    /\ ~IsValidPassword(hashed[2], MkBytes(<<98>>), params)
    /\ ~IsValidPassword(hashed[1], MkBytes(<<98>>), params)

\* C6: String() is "$argon2id$v=19$m=<MemoryCost>,t=<Iterations>,
\* p=<Parallelism>$<salt>$<key>" with decimal numbers in that order and salt
\* and key in unpadded standard base64; it splits on "$" into exactly 6
\* segments, the first empty and the second "argon2id".
StringHasPHCFormat ==
    \A i \in Slots :
        ~hashed[i].isNil =>
            LET s    == String(hashed[i], params)
                segs == Split(s)
            IN  /\ NumSeps(s) = 5
                /\ Len(segs) = 6
                /\ segs[1] = <<>>
                /\ segs[2] = <<"a", "r", "g", "o", "n", "2", "i", "d">>
                /\ segs[3] = <<"v", "=", "1", "9">>
                /\ IsParamSegment(segs[4],
                                  params[hashed[i].Params].MemoryCost,
                                  params[hashed[i].Params].Iterations,
                                  params[hashed[i].Params].Parallelism)
                /\ \A k \in 1..Len(segs[5]) : IsB64Char(segs[5][k])
                /\ \A k \in 1..Len(segs[6]) : IsB64Char(segs[6][k])
                /\ Len(segs[5]) = (Len(hashed[i].Salt.b) * 4 + 2) \div 3
                /\ Len(segs[6]) = (Len(hashed[i].Hash.b) * 4 + 2) \div 3
                /\ DecodeString(segs[5])
                       = [ok |-> TRUE, b |-> hashed[i].Salt.b]
                /\ DecodeString(segs[6])
                       = [ok |-> TRUE, b |-> hashed[i].Hash.b]

\* A result of HashCustom with m=32768,t=2,p=2 and the salt "salt", whose
\* base64 is "c2FsdA": two characters short of a full quantum.
StringHasPHCFormatWitness ==
    \E i \in Slots :
        /\ call[i].op = "HashCustom"
        /\ hashed[i].Salt.b = <<115, 97, 108, 116>>
        /\ params[hashed[i].Params].MemoryCost = 32768
        /\ params[hashed[i].Params].Iterations = 2
        /\ Split(String(hashed[i], params))[4]
               = <<"m", "=", "3", "2", "7", "6", "8", ",", "t", "=", "2",
                   ",", "p", "=", "2">>
        /\ Split(String(hashed[i], params))[5]
               = <<"c", "2", "F", "s", "d", "A">>

\* C7: Hash fails with the empty-password error and a nil result whenever
\* the password is nil or zero-length, provided salt generation succeeded.
HashRefusesEmptyPassword ==
    \A i \in Slots :
        (call[i].op = "Hash" /\ Len(call[i].password.b) = 0 /\ EntropyOK(i))
        => /\ hashed[i].isNil
           /\ ErrContains(err[i], "failed to hash the password")
           /\ ErrContains(err[i], "the password is empty")

\* C8: two calls of HashCustom with the same password, the same explicit
\* non-nil salt and equal parameters return results with identical strings;
\* two calls of Hash with the same password under a RandRead that always
\* delivers the same bytes return results with identical strings whose salt
\* segment encodes those bytes.
SameInputsSameString ==
    /\ (/\ TwoHashCustom
        /\ call[1].salt = call[2].salt
        /\ ~call[1].salt.isNil)
       => String(hashed[1], params) = String(hashed[2], params)
    /\ (/\ call[1].op = "Hash" /\ call[2].op = "Hash"
        /\ call[1].password = call[2].password
        /\ call[1].src.reader = "static" /\ call[2].src.reader = "static"
        /\ ~hashed[1].isNil /\ ~hashed[2].isNil)
       => /\ String(hashed[1], params) = String(hashed[2], params)
          /\ Split(String(hashed[1], params))[5]
                 = <<"M", "D", "E", "y", "M", "z", "Q", "1", "N", "j", "c",
                     "4", "O", "W", "F", "i", "Y", "2", "R", "l", "Z", "g">>

\* Two results of HashCustom("a", "salt", params) obtained while RandRead
\* is crypto/rand.Read.
SameInputsSameStringWitness ==
    /\ TwoHashCustom
    /\ call[1].password = MkBytes(<<97>>)
    /\ call[1].salt = MkBytes(<<115, 97, 108, 116>>)
    /\ call[2].salt = call[1].salt
    /\ RandRead = "crypto"
    /\ String(hashed[1], params) = String(hashed[2], params)

\* C9, as amended: two calls of HashCustom with the same password, equal
\* parameters and a nil salt return results whose strings differ exactly
\* when their salts differ: they differ when both calls drew from a working
\* entropy source that delivers fresh bytes and SaltLength > 0, and they are
\* identical when SaltLength is 0 or when RandRead fails (both salts are
\* nil) or delivers the same bytes in both calls.
NilSaltStringsDifferWithSalts ==
    (/\ TwoHashCustom
     /\ call[1].salt.isNil /\ call[2].salt.isNil)
    => /\ String(hashed[1], params) # String(hashed[2], params)
              <=> hashed[1].Salt.b # hashed[2].Salt.b
       /\ (/\ call[1].src.reader = "crypto"
           /\ call[2].src.reader = "crypto"
           /\ call[1].params.SaltLength > 0)
          => String(hashed[1], params) # String(hashed[2], params)
       /\ (\/ call[1].params.SaltLength = 0
           \/ /\ call[1].src.reader = call[2].src.reader
              /\ call[1].src.reader \in {"failing", "static"})
          => String(hashed[1], params) = String(hashed[2], params)
       /\ (call[1].src.reader = "failing" /\ call[2].src.reader = "failing")
          => hashed[1].Salt.isNil /\ hashed[2].Salt.isNil

\* Two results of HashCustom("a", nil, NewParams()) under crypto/rand.Read.
NilSaltStringsDifferWithSaltsWitness ==
    /\ TwoHashCustom
    /\ call[1].salt.isNil /\ call[2].salt.isNil
    /\ call[1].password = MkBytes(<<97>>)
    /\ call[1].src.reader = "crypto" /\ call[2].src.reader = "crypto"
    /\ call[1].params = NewParams
    /\ Len(hashed[1].Salt.b) = SaltLengthDefault
    /\ String(hashed[1], params) # String(hashed[2], params)

\* C9, as the claim states it: two calls of HashCustom with the same
\* password, the same parameters and a nil salt return different strings.
NilSaltStringsDiffer ==
    (/\ TwoHashCustom
     /\ call[1].salt.isNil /\ call[2].salt.isNil)
    => String(hashed[1], params) # String(hashed[2], params)

\* C10: DecodeHashStr fails with "invalid hash format" and a nil result for
\* every input that does not split on "$" into exactly 6 segments, fewer or
\* more.
WrongChunkCountIsInvalidFormat ==
    \A i \in Slots :
        (call[i].op = "DecodeHashStr"
         /\ NumSeps(call[i].encodedHash) + 1 # 6)
        => /\ hashed[i].isNil
           /\ ErrContains(err[i], "invalid hash format")

\* An input of seven segments whose first six make a string that decodes.
WrongChunkCountIsInvalidFormatWitness ==
    /\ call[1].op = "DecodeHashStr"
    /\ NumSeps(call[1].encodedHash) = 6
    /\ DecodeVals(Split(call[1].encodedHash)).err = NoError
    /\ hashed[1].isNil
    /\ ErrContains(err[1], "invalid hash format")

\* A string handed to DecodeHashStr in slot i has six segments.
DecodedSix(i) ==
    /\ call[i].op = "DecodeHashStr"
    /\ NumSeps(call[i].encodedHash) = 5

\* Segment k of the string handed to DecodeHashStr in slot i.
Segment(i, k) == Split(call[i].encodedHash)[k]

\* The call of slot i failed with a nil result and msg in its error.
FailedWith(i, msg) == hashed[i].isNil /\ ErrContains(err[i], msg)

\* tok consists of decimal digits, at least one.
AllDigits(tok) == tok # <<>> /\ \A k \in 1..Len(tok) : IsDigit(tok[k])

\* txt without the blanks it begins with.
RECURSIVE StripBlanks(_)
StripBlanks(txt) ==
    IF txt # <<>> /\ Head(txt) \in {" ", "\t", "\r"}
    THEN StripBlanks(Tail(txt)) ELSE txt

\* txt without the blanks and the one sign it begins with.
Unsigned(txt) ==
    LET u == StripBlanks(txt)
    IN  IF u # <<>> /\ Head(u) \in {"+", "-"} THEN Tail(u) ELSE u

\* txt begins with a decimal numeral (after blanks and a sign).
StartsNumber(txt) == Unsigned(txt) # <<>> /\ IsDigit(Head(Unsigned(txt)))

\* The numeral txt begins with, taken as far as digits go, has value n.
NumeralIs(u, n) ==
    \E k \in 1..Len(u) :
        /\ AllDigits(SubSeq(u, 1, k))
        /\ k = Len(u) \/ ~IsDigit(u[k + 1])
        /\ DigitsValue(SubSeq(u, 1, k)) = n

\* C11: DecodeHashStr accepts a string only if its version segment parses
\* as v=<int> with the integer 19; a non-numeric version fails with "failed
\* to parse the version" and any other integer with "incompatible version
\* of Argon2".
VersionSegmentDecides ==
    \A i \in Slots :
        DecodedSix(i) =>
            LET seg == Segment(i, 3)
                txt == Tail2(seg, 2)
            IN  /\ err[i] = NoError =>
                       /\ HasPrefix(seg, <<"v", "=">>)
                       /\ StripBlanks(txt) # <<>>
                       /\ Head(StripBlanks(txt)) # "-"
                       /\ NumeralIs(Unsigned(txt), 19)
                /\ (~HasPrefix(seg, <<"v", "=">>) \/ ~StartsNumber(txt))
                       => FailedWith(i, "failed to parse the version")
                /\ (/\ HasPrefix(seg, <<"v", "=">>)
                    /\ AllDigits(txt)
                    /\ DigitsValue(txt) # 19)
                       => /\ FailedWith(i, "incompatible version of Argon2")
                          /\ ~ErrContains(err[i], "failed to parse the version")

\* The string of ExampleDecodeHashStr with the version 16.
VersionSegmentDecidesWitness ==
    /\ DecodedSix(1)
    /\ Segment(1, 1) = <<>>
    /\ Segment(1, 3) = <<"v", "=", "1", "6">>
    /\ DecodeVals(<<<<>>, Segment(1, 2), <<"v", "=", "1", "9">>,
                    Segment(1, 4), Segment(1, 5), Segment(1, 6)>>).err
           = NoError
    /\ FailedWith(1, "incompatible version of Argon2")

\* tok is a decimal numeral that fits the operand type.
IsUintOf(tok, type) ==
    AllDigits(tok) /\ DigitsLE(StripZeros(tok), MaxOfType(type))

\* seg has the form m=<uint>,t=<uint>,p=<uint>: that order, commas between,
\* m and t within uint32 and p within uint8, and nothing else.
IsParamForm(seg) ==
    \E i, j \in 1..Len(seg) :
        /\ i < j
        /\ seg[i] = "," /\ seg[j] = ","
        /\ SubSeq(seg, 1, 2) = <<"m", "=">>
        /\ IsUintOf(SubSeq(seg, 3, i - 1), "uint32")
        /\ SubSeq(seg, i + 1, i + 2) = <<"t", "=">>
        /\ IsUintOf(SubSeq(seg, i + 3, j - 1), "uint32")
        /\ SubSeq(seg, j + 1, j + 2) = <<"p", "=">>
        /\ IsUintOf(SubSeq(seg, j + 3, Len(seg)), "uint8")

\* C12: DecodeHashStr fails with "missing parameters in the hash" whenever
\* the parameter segment is not of the form m=<uint>,t=<uint>,p=<uint> in
\* that order with comma separators and values that fit uint32, uint32 and
\* uint8.
MalformedParamsRefused ==
    \A i \in Slots :
        (/\ DecodedSix(i)
         /\ Segment(i, 3) = <<"v", "=", "1", "9">>
         /\ ~IsParamForm(Segment(i, 4)))
        => FailedWith(i, "missing parameters in the hash")

\* seg holds a character outside the standard alphabet ("=" is one).
HasForeignChar(seg) == \E k \in 1..Len(seg) : ~IsB64Char(seg[k])

\* The version and the parameter segment of the string of slot i pass.
ReachesBase64(i) ==
    /\ DecodedSix(i)
    /\ Segment(i, 3) = <<"v", "=", "1", "9">>
    /\ IsParamForm(Segment(i, 4))

\* C13: a salt segment with "=" padding or a character outside the standard
\* alphabet fails with "failed to decode salt value", and such a key segment
\* after a valid salt segment fails with "failed to decode hash value".
NonBase64Refused ==
    \A i \in Slots :
        ReachesBase64(i) =>
            /\ HasForeignChar(Segment(i, 5))
                   => FailedWith(i, "failed to decode salt value")
            /\ (/\ ~HasForeignChar(Segment(i, 5))
                /\ DecodeString(Segment(i, 5)).ok
                /\ HasForeignChar(Segment(i, 6)))
                   => FailedWith(i, "failed to decode hash value")

\* The number of bytes the base64 characters of seg stand for.
B64Len(seg) == (Cardinality({k \in 1..Len(seg) : IsB64Char(seg[k])}) * 3) \div 4

HasParamValues(seg, m, t, p) ==
    \E i, j \in 1..Len(seg) :
        /\ i < j
        /\ seg[i] = "," /\ seg[j] = ","
        /\ SubSeq(seg, 1, 2) = <<"m", "=">>
        /\ AllDigits(SubSeq(seg, 3, i - 1))
        /\ DigitsValue(SubSeq(seg, 3, i - 1)) = m
        /\ SubSeq(seg, i + 1, i + 2) = <<"t", "=">>
        /\ AllDigits(SubSeq(seg, i + 3, j - 1))
        /\ DigitsValue(SubSeq(seg, i + 3, j - 1)) = t
        /\ SubSeq(seg, j + 1, j + 2) = <<"p", "=">>
        /\ NumeralIs(SubSeq(seg, j + 3, Len(seg)), p)

\* C15: on success DecodeHashStr returns Params whose SaltLength and
\* KeyLength are the byte lengths of the decoded salt and key and whose
\* MemoryCost, Iterations and Parallelism are the m, t and p of the string;
\* no default of NewParams survives.
DecodedParamsComeFromString ==
    \A i \in Slots :
        (DecodedSix(i) /\ err[i] = NoError)
        => /\ ~hashed[i].isNil
           /\ params[hashed[i].Params].SaltLength = B64Len(Segment(i, 5))
           /\ params[hashed[i].Params].KeyLength = B64Len(Segment(i, 6))
           /\ params[hashed[i].Params].SaltLength = Len(hashed[i].Salt.b)
           /\ params[hashed[i].Params].KeyLength = Len(hashed[i].Hash.b)
           /\ HasParamValues(Segment(i, 4),
                             params[hashed[i].Params].MemoryCost,
                             params[hashed[i].Params].Iterations,
                             params[hashed[i].Params].Parallelism)

\* m=32768,t=2,p=1 with a salt of 8 bytes and a key of 3: every field
\* differs from the default of NewParams.
DecodedParamsComeFromStringWitness ==
    /\ DecodedSix(1)
    /\ err[1] = NoError
    /\ Segment(1, 4) = <<"m", "=", "3", "2", "7", "6", "8", ",", "t", "=",
                         "2", ",", "p", "=", "1">>
    /\ params[hashed[1].Params]
           = [Iterations |-> 2, KeyLength |-> 3, MemoryCost |-> 32768,
              SaltLength |-> 8, Parallelism |-> 1]

\* C17: when HashCustom is called with a nil salt and the entropy source
\* fails, the failure is reported and no result is derived with a nil salt.
\* HashCustom has no error to return and drops the one of NewSalt.
EntropyFailureReported ==
    \A i \in Slots :
        (/\ call[i].op = "HashCustom"
         /\ call[i].salt.isNil
         /\ call[i].src.reader = "failing")
        => /\ hashed[i].isNil
           /\ err[i] # NoError

\* C18: HashCustom generates a salt of parameters.SaltLength bytes whenever
\* the salt argument is nil or empty, and uses the supplied salt unchanged
\* otherwise.  The code tests salt == nil only.
SaltGeneratedWhenNilOrEmpty ==
    \A i \in Slots :
        call[i].op = "HashCustom"
        => /\ Len(call[i].salt.b) > 0 => hashed[i].Salt = call[i].salt
           /\ (call[i].salt.isNil /\ EntropyOK(i))
              => Len(hashed[i].Salt.b) = call[i].params.SaltLength
           /\ (~call[i].salt.isNil /\ Len(call[i].salt.b) = 0)
              => Len(hashed[i].Salt.b) = call[i].params.SaltLength

\* C19: a result of HashCustom owns its parameters: whatever the caller does
\* to the Params it passed, h.Params and h.String() stay what they were
\* when HashCustom returned and h.IsValidPassword(p) stays true for the
\* password p that was hashed.
ResultOwnsItsParams ==
    \A i \in Slots :
        call[i].op = "HashCustom"
        => /\ params[hashed[i].Params] = call[i].params
           /\ String(hashed[i], params)
                  = String(hashed[i],
                           [params EXCEPT ![hashed[i].Params] =
                                              call[i].params])
           /\ IsValidPassword(hashed[i], call[i].password, params)

\* C16: a failing call of Hash, DecodeHashStr, DecodeHashGob, Hashed.Gob or
\* NewSalt returns a nil result together with a non-nil error; no call
\* returns an error and a result, and none a nil *Hashed without an error.
FailureReturnsNothing ==
    /\ \A i \in Slots :
           call[i].op \in {"Hash", "DecodeHashStr", "DecodeHashGob"}
           => /\ err[i] # NoError => hashed[i] = NilHashed
              /\ hashed[i].isNil => err[i] # NoError
    /\ gobbed.op = "Gob"
       => (gobbed.err # NoError => gobbed.bytes = NilGob)
    /\ salted.op = "NewSalt"
       => (salted.err # NoError => salted.salt = NilBytes)

\* NewSalt failed for want of entropy, Gob failed on a Hashed without hash
\* and DecodeHashGob failed on nil.
FailureReturnsNothingWitness ==
    /\ salted.op = "NewSalt"
    /\ ErrContains(salted.err, "failed to generate salt")
    /\ salted.salt.isNil
    /\ call[1].op = "new"
    /\ gobbed.op = "Gob"
    /\ ErrContains(gobbed.err, "hash value is empty")
    /\ gobbed.bytes.isNil
    /\ call[2].op = "DecodeHashGob"
    /\ call[2].gobEncHash = NilGob
    /\ FailedWith(2, "failed to gob decode the hash")

\* Slot 2 holds DecodeHashGob of what h.Gob() returned for the h of slot 1,
\* and h is as it was encoded.
GobbedFromFirst ==
    /\ gobbed.op = "Gob"
    /\ gobbed.err = NoError
    /\ call[2].op = "DecodeHashGob"
    /\ call[2].gobEncHash = gobbed.bytes
    /\ gobbed.bytes = Gob(hashed[1], params).bytes

\* C20: for an h with a non-nil key h.Gob() succeeds, and DecodeHashGob of
\* its output returns a Hashed with the parameter fields, the salt bytes
\* and the key bytes of h, which accepts and rejects the same candidates.
GobRestoresHashed ==
    /\ (gobbed.op = "Gob" /\ ~hashed[1].Hash.isNil) => gobbed.err = NoError
    /\ GobbedFromFirst
       => /\ err[2] = NoError
          /\ ~hashed[2].isNil
          /\ hashed[2].Params # "nil"
          /\ params[hashed[2].Params] = params[hashed[1].Params]
          /\ hashed[2].Salt.b = hashed[1].Salt.b
          /\ hashed[2].Hash.b = hashed[1].Hash.b
          /\ \A c \in Candidates :
                 IsValidPassword(hashed[2], c, params)
                     = IsValidPassword(hashed[1], c, params)

\* The h of HashCustom with the salt "saltsalt" and parameters of which
\* SaltLength is 0, a field gob does not send: the decoded Hashed accepts
\* the password and rejects another.
GobRestoresHashedWitness ==
    /\ GobbedFromFirst
    /\ call[1].op = "HashCustom"
    /\ Len(hashed[1].Salt.b) = 8
    /\ params[hashed[1].Params].SaltLength = 0
    /\ ~Sent(gobbed.bytes.msg, "SaltLength")
    /\ hashed[2].Params = OwnRef(2)
    /\ IsValidPassword(hashed[2], call[1].password, params)
    /\ \E c \in Candidates : ~IsValidPassword(hashed[2], c, params)

\* C21: Hashed.Gob fails with 'hash value is empty' and returns nil bytes
\* whenever h.Hash is nil, also for a zero-value Hashed whose Params is nil;
\* it validates nothing else: with any non-nil hash, one of length 0
\* included, it returns bytes and no error.
GobFailsOnlyWithoutHash ==
    gobbed.op = "Gob"
    => /\ hashed[1].Hash.isNil
          => /\ ErrContains(gobbed.err, "hash value is empty")
             /\ gobbed.bytes.isNil
       /\ ~hashed[1].Hash.isNil
          => /\ gobbed.err = NoError
             /\ ~gobbed.bytes.isNil

\* Gob of new(Hashed), as in TestHashed_Gob.
GobFailsOnlyWithoutHashWitness ==
    /\ call[1].op = "new"
    /\ hashed[1] = ZeroHashed
    /\ gobbed.op = "Gob"
    /\ ErrContains(gobbed.err, "hash value is empty")
    /\ ErrContains(gobbed.err, "failed to gob encode the hash")
    /\ gobbed.bytes.isNil

\* C22: when RandRead returns an error, NewSalt returns a zero salt and an
\* error that contains 'failed to generate salt' and the message of the
\* cause, and Hash returns a nil result and an error that wraps the same
\* cause; nothing is derived.
EntropyFailureWrapsCause ==
    /\ (salted.op = "NewSalt" /\ salted.src.reader = "failing")
       => /\ salted.salt = NilBytes
          /\ ErrContains(salted.err, "failed to generate salt")
          /\ ErrContains(salted.err, "forced error")
    /\ \A i \in Slots :
           (call[i].op = "Hash" /\ call[i].src.reader = "failing")
           => /\ hashed[i] = NilHashed
              /\ ErrContains(err[i], "failed to hash the password")
              /\ ErrContains(err[i], "forced error")
              /\ params[OwnRef(i)] = ZeroParams

\* NewSalt(16) and then Hash of a password, both while RandRead fails.
EntropyFailureWrapsCauseWitness ==
    /\ salted.op = "NewSalt"
    /\ salted.src.reader = "failing"
    /\ salted.lenOut = 16
    /\ salted.salt.isNil
    /\ call[1].op = "Hash"
    /\ call[1].src.reader = "failing"
    /\ ~call[1].password.isNil
    /\ hashed[1].isNil
    /\ ErrContains(err[1], "forced error")

\* C24: NewParams returns, and SetDefault resets any Params to, exactly
\* Iterations 3, MemoryCost 65536, Parallelism 4, SaltLength 16 and
\* KeyLength 32, whatever the fields held; Hash hashes with these values,
\* so every result of Hash has a salt of 16 bytes and a key of 32.
DefaultsAreExact ==
    LET defaults == [Iterations |-> 3, KeyLength |-> 32, MemoryCost |-> 65536,
                     SaltLength |-> 16, Parallelism |-> 4]
    IN  /\ NewParams = defaults
        /\ \A r \in ParamRefs : SetDefault(params[r]) = defaults
        /\ \A i \in Slots :
               (call[i].op = "Hash" /\ ~hashed[i].isNil)
               => /\ params[hashed[i].Params] = defaults
                  /\ Len(hashed[i].Salt.b) = 16
                  /\ Len(hashed[i].Hash.b) = 32

\* A result of Hash while the caller's own Params holds other values in
\* every field.
DefaultsAreExactWitness ==
    /\ call[1].op = "Hash"
    /\ ~hashed[1].isNil
    /\ Len(hashed[1].Salt.b) = 16
    /\ Len(hashed[1].Hash.b) = 32
    /\ params[CallerRef].Iterations = 2
    /\ params[CallerRef].SaltLength = 0
    /\ SetDefault(params[CallerRef]) = params[hashed[1].Params]

\* The checks of DecodeHashStr that the string of slot i fails, each taken
\* by itself: 1 segment count, 2 version parse, 3 version equality,
\* 4 parameter parse, 5 salt base64, 6 key base64, 7 length range.
Defects(i) ==
    IF NumSeps(call[i].encodedHash) # 5 THEN {1}
    ELSE {k \in 2..7 :
            CASE k = 2 -> ~SscanfVersion(Segment(i, 3)).ok
              [] k = 3 -> /\ SscanfVersion(Segment(i, 3)).ok
                          /\ SscanfVersion(Segment(i, 3)).version # 19
              [] k = 4 -> ~SscanfParams(Segment(i, 4)).ok
              [] k = 5 -> ~DecodeString(Segment(i, 5)).ok
              [] k = 6 -> ~DecodeString(Segment(i, 6)).ok
              [] k = 7 -> /\ DecodeString(Segment(i, 5)).ok
                          /\ Len(DecodeString(Segment(i, 5)).b) < 8}

\* The message of check k.
CheckMessage(k) ==
    CASE k = 1 -> "invalid hash format"
      [] k = 2 -> "failed to parse the version"
      [] k = 3 -> "incompatible version of Argon2"
      [] k = 4 -> "missing parameters in the hash"
      [] k = 5 -> "failed to decode salt value"
      [] k = 6 -> "failed to decode hash value"
      [] k = 7 -> "hash or salt length is too long or too short"

\* C26: DecodeHashStr reports the error of the first check that fails, in
\* the order segment count, version parse, version equality, parameter
\* parse, salt base64, key base64, length range, and of no later one.
FirstDefectIsReported ==
    \A i \in Slots :
        call[i].op = "DecodeHashStr"
        => IF Defects(i) = {} THEN err[i] = NoError
           ELSE LET first == CHOOSE k \in Defects(i) :
                                 \A j \in Defects(i) : k <= j
                IN  /\ FailedWith(i, CheckMessage(first))
                    /\ \A k \in 1..7 :
                           k # first => ~ErrContains(err[i], CheckMessage(k))

\* A string with an incompatible version, bad parameters, an undecodable
\* salt and an undecodable key fails on the version.
FirstDefectIsReportedWitness ==
    /\ call[1].op = "DecodeHashStr"
    /\ Defects(1) = {3, 4, 5, 6}
    /\ FailedWith(1, "incompatible version of Argon2")

\* C27: DecodeHashStr succeeds only on strings that begin with
\* "$argon2id$".  The code never looks at the first two segments.
OnlyArgon2idAccepted ==
    \A i \in Slots :
        (call[i].op = "DecodeHashStr" /\ err[i] = NoError)
        => HasPrefix(call[i].encodedHash,
                     <<"$", "a", "r", "g", "o", "n", "2", "i", "d", "$">>)

\* C28: for the h of Hash or HashCustom, DecodeHashStr(h.String()) fails if
\* and only if h.Salt has fewer than 8 bytes, and then with "hash or salt
\* length is too long or too short".
StoredStringRefusedIffShortSalt ==
    DecodedFromFirst
    => /\ err[2] # NoError <=> Len(hashed[1].Salt.b) < 8
       /\ err[2] # NoError
          => FailedWith(2, "hash or salt length is too long or too short")
       /\ err[2] = NoError => ~hashed[2].isNil

\* HashCustom with the salt of four bytes of TestHashCustom_fix_issue46:
\* its string is refused.
StoredStringRefusedIffShortSaltWitness ==
    /\ DecodedFromFirst
    /\ call[1].op = "HashCustom"
    /\ Len(call[1].salt.b) = 4
    /\ hashed[1].Salt = call[1].salt
    /\ FailedWith(2, "hash or salt length is too long or too short")

\* C29: Hash draws the salt before it checks the password: with a failing
\* RandRead and a nil password the error is the one of the salt and does
\* not contain "the password is empty"; that error is reported only when
\* the salt was drawn.
SaltFailureBeforeEmptyPassword ==
    \A i \in Slots :
        call[i].op = "Hash"
        => /\ (call[i].src.reader = "failing" /\ call[i].password.isNil)
              => /\ hashed[i].isNil
                 /\ ErrContains(err[i], "failed to generate salt")
                 /\ ErrContains(err[i], "forced error")
                 /\ ~ErrContains(err[i], "the password is empty")
           /\ ErrContains(err[i], "the password is empty")
              => /\ call[i].password.isNil
                 /\ EntropyOK(i)
                 /\ ~ErrContains(err[i], "failed to generate salt")

\* Hash(nil) while RandRead fails.
SaltFailureBeforeEmptyPasswordWitness ==
    /\ call[1].op = "Hash"
    /\ call[1].password.isNil
    /\ call[1].src.reader = "failing"
    /\ hashed[1].isNil
    /\ ErrContains(err[1], "failed to generate salt")
    /\ ~ErrContains(err[1], "the password is empty")

\* C25: RandomBytes(0) and NewSalt(0) return an empty byte sequence and no
\* error.  RandomBytes calls RandRead whatever the length is, so the
\* request fails with a RandRead that fails.
ZeroLengthRequestSucceeds ==
    (salted.op = "NewSalt" /\ salted.lenOut = 0)
    => /\ salted.err = NoError
       /\ salted.salt = MkBytes(<<>>)
       /\ RandomBytes(0, salted.src).err = NoError
       /\ RandomBytes(0, salted.src).bytes = MkBytes(<<>>)

\* The Hashed of slot 1 as seen through the slice its field Salt holds.
SeenHashed(arrs, vs) ==
    [hashed[1] EXCEPT !.Salt = MkBytes(View(arrs, vs["h"].hdr))]

\* A step that is a call of AddPepper.
IsAddPepper == lastPepper'.calls = lastPepper.calls + 1

\* C23: AddPepper with a non-empty pepper keeps the bytes the salt had as
\* a prefix, appends the pepper and makes the salt len(pepper) longer; the
\* Hashed that HashCustom made from that salt before the call has the same
\* Salt bytes, Salt length, Hash and String() after the call as before it.
PepperAppendsAndSparesResult ==
    [][IsAddPepper
       => LET v      == lastPepper'.name
              pepper == lastPepper'.pepper
              before == View(arrays, saltVars[v].hdr)
              after  == View(arrays', saltVars'[v].hdr)
          IN  /\ Len(pepper) > 0
              /\ after = before \o pepper
              /\ SubSeq(after, 1, Len(before)) = before
              /\ Len(after) = Len(before) + Len(pepper)
              /\ (v = "salt" /\ saltVars["h"].bound)
                 => /\ SeenHashed(arrays', saltVars').Salt
                           = SeenHashed(arrays, saltVars).Salt
                    /\ Len(SeenHashed(arrays', saltVars').Salt.b)
                           = Len(SeenHashed(arrays, saltVars).Salt.b)
                    /\ hashed'[1].Hash = hashed[1].Hash
                    /\ String(SeenHashed(arrays', saltVars'), params')
                           = String(SeenHashed(arrays, saltVars), params)
      ]_vars

\* The salt was peppered, hashed with, and peppered again in the array that
\* h.Salt shares with it.
PepperAppendsAndSparesResultWitness ==
    /\ saltVars["h"].bound
    /\ lastPepper.name = "salt"
    /\ saltVars["salt"].hdr.arr = saltVars["h"].hdr.arr
    /\ saltVars["salt"].hdr.len > saltVars["h"].hdr.len
    /\ lastPepper.before = hashed[1].Salt.b
    /\ Len(hashed[1].Salt.b) > SaltLengthDefault

\* C30: AddPepper on one Salt never changes the bytes seen through
\* another: two copies of one salt that each get peppers of their own end
\* as the common bytes followed by their own peppers.  The copies share
\* the array, and append writes into its spare room.
CopiesStayApart ==
    saltVars["copy"].bound
    => \A v \in {"salt", "copy"} :
           View(arrays, saltVars[v].hdr)
               = saltVars[v].base \o saltVars[v].added

=============================================================================
